---- MODULE Spec2Model ----
(***************************************************************************)
(* Model of the LLM cost optimizer's routing engine (src/src/router.py,     *)
(* src/src/models.py).                                                      *)
(*                                                                          *)
(* Money is counted in micro-dollars (1e-6 USD), the resolution of          *)
(* ModelConfig.estimate_cost, which rounds to 6 decimal places.  Prices are *)
(* micro-dollars per 1,000 tokens.  The classifier's score is counted in    *)
(* halves (score2 = 2 * score): every term of the score is a multiple of    *)
(* 0.5, which binary floating point represents exactly.                     *)
(*                                                                          *)
(* A text is represented by what the router measures of it: its stripped    *)
(* length, its number of whitespace-separated words, the configured         *)
(* keywords it contains, its '?' count, its list lines and code markers.    *)
(***************************************************************************)
EXTENDS Integers, Sequences, FiniteSets, TLC

VARIABLES
    models,                 \* SmartRouter.models
    routing_rules,          \* SmartRouter.routing_rules
    fallback_chain,         \* SmartRouter.fallback_chain
    complexity_thresholds,  \* SmartRouter.complexity_thresholds
    models_by_tier,         \* SmartRouter._models_by_tier
    call,                   \* the call the caller made last, "idle" when none is held
    ret,                    \* what that call returned or raised
    log,                    \* the calls the caller remembers, each with its result
    proc,                   \* the route calls of concurrent callers, step by step
    budgets,                \* BudgetManager._budgets
    usage                   \* the rows of CostTracker's usage_records table, by id

vars == <<models, routing_rules, fallback_chain, complexity_thresholds,
          models_by_tier, call, ret, log, proc, budgets, usage>>

config_vars == <<models, routing_rules, fallback_chain, complexity_thresholds,
                 models_by_tier>>

store_vars == <<budgets, usage>>

-----------------------------------------------------------------------------
(* Python values *)

\* Optional[T]: None is the empty tuple, a present value x is <<x>>.
None == <<>>

Some(x) == <<x>>

\* Optional enum members (Complexity, QualityTier) that are absent.
NoneStr == "None"

\* dict.get(key, default)
Get(d, k, default) == IF k \in DOMAIN d THEN d[k] ELSE default

Max(a, b) == IF a >= b THEN a ELSE b

\* class QualityTier(StrEnum)
Tiers == {"premium", "standard", "economy"}

\* class Complexity(StrEnum)
Complexities == {"simple", "moderate", "complex"}

-----------------------------------------------------------------------------
(* Bounds of the model *)

\* Longest model list of a configuration.
MaxModels == 3

\* Most calls a caller remembers the results of.
MaxLog == 2

\* Number of callers that share one router.
NumCallers == 2

\* Most usage records logged before the budgets are checked.
MaxRecords == 2

\* Most usage records logged before the analytics are computed.
MaxAnalyticsRecords == 3

-----------------------------------------------------------------------------
(* ModelConfig and its cost estimate *)

\* ModelConfig(name, cost_per_1k_input, cost_per_1k_output, quality_tier); the
\* fields the router never reads (provider, model_id, max_tokens) are left out.
ModelConfig(n, ci, co, t) ==
    [name |-> n, cost_per_1k_input |-> ci, cost_per_1k_output |-> co, quality_tier |-> t]

\* round(x, 6) of x = n / 1000 micro-dollars: to the nearest micro-dollar, an
\* exact half to the even neighbour.  (On binary floats an exact decimal half
\* may land on either neighbour; the prices of ModelPool produce no half.)
Round6(n) ==
    LET q == n \div 1000
        r == n % 1000
    IN  IF r < 500 THEN q
        ELSE IF r > 500 THEN q + 1
        ELSE IF q % 2 = 0 THEN q ELSE q + 1

\* An estimate that subtracts the output tokens' share.
estimate_cost_OutputSubtracted(model, input_tokens, output_tokens) ==
    Round6(input_tokens * model.cost_per_1k_input
           - output_tokens * model.cost_per_1k_output)

\* ModelConfig.estimate_cost
estimate_cost(model, input_tokens, output_tokens) ==
    Round6(input_tokens * model.cost_per_1k_input
           + output_tokens * model.cost_per_1k_output)

-----------------------------------------------------------------------------
(* Configurations *)

\* The models a configuration file may list.  P1 and P2 share an input price;
\* P3 has the highest input price of the premium tier and, at equal input and
\* output tokens, a lower estimate than P1.
ModelPool ==
    { ModelConfig("P1", 3000, 9000, "premium"),
      ModelConfig("P2", 3000, 3000, "premium"),
      ModelConfig("P3", 5000, 1000, "premium"),
      ModelConfig("S1", 500, 1500, "standard"),
      ModelConfig("E1", 80, 300, "economy") }

RECURSIVE ModelLists(_)
\* The lists of at most n models of the pool, no model listed twice.
ModelLists(n) ==
    IF n = 0 THEN {<<>>}
    ELSE LET shorter == ModelLists(n - 1)
         IN  shorter \cup
             { Append(s, m) : <<s, m>> \in
                 { p \in shorter \X ModelPool :
                     /\ Len(p[1]) = n - 1
                     /\ \A i \in DOMAIN p[1] : p[1][i] # p[2] } }

\* routing_rules of the shipped configuration (spec.md, 4.3 step 2).
DefaultRules ==
    [simple |-> "economy", moderate |-> "standard", complex |-> "premium"]

\* The routing_rules a configuration file may hold: the default mapping, an
\* inverted one with no entry for moderate, and one naming a tier that is no
\* QualityTier.
RuleSets ==
    { DefaultRules,
      [simple |-> "premium", complex |-> "economy"],
      [simple |-> "basic", moderate |-> "standard", complex |-> "premium"] }

\* The fallback_chain a configuration file may hold: downward, upward with no
\* entry for premium, and one naming a tier that is no QualityTier.
FallbackChains ==
    { [premium |-> <<"standard", "economy">>, standard |-> <<"economy">>,
       economy |-> <<>>],
      [economy |-> <<"standard", "premium">>, standard |-> <<"premium", "economy">>],
      [premium |-> <<"basic", "economy">>, standard |-> <<"economy", "basic">>] }

\* complexity_thresholds of the configuration file; every key is optional.
ThresholdSets ==
    { [short_text_max |-> 10, medium_text_max |-> 20,
       complex_keywords |-> <<"analyze", "compare">>,
       simple_keywords |-> <<"hello">>] }

Configs ==
    [ models : ModelLists(MaxModels),
      routing_rules : RuleSets,
      fallback_chain : FallbackChains,
      complexity_thresholds : ThresholdSets ]

-----------------------------------------------------------------------------
(* SmartRouter._load_config *)

RECURSIVE InsertUnstable(_, _)
\* An insertion that puts m before the models of equal price.
InsertUnstable(sorted, m) ==
    IF sorted = <<>> THEN <<m>>
    ELSE IF Head(sorted).cost_per_1k_input < m.cost_per_1k_input
         THEN <<Head(sorted)>> \o InsertUnstable(Tail(sorted), m)
         ELSE <<m>> \o sorted

RECURSIVE InsertByInputCost(_, _)
\* m put into a list sorted by cost_per_1k_input, after every model whose price
\* is not higher: the step of a stable sort.
InsertByInputCost(sorted, m) ==
    IF sorted = <<>> THEN <<m>>
    ELSE IF Head(sorted).cost_per_1k_input <= m.cost_per_1k_input
         THEN <<Head(sorted)>> \o InsertByInputCost(Tail(sorted), m)
         ELSE <<m>> \o sorted

RECURSIVE SortByInputCost(_)
\* list.sort(key=lambda m: m.cost_per_1k_input): ascending and stable.
SortByInputCost(ms) ==
    IF ms = <<>> THEN <<>>
    ELSE InsertByInputCost(SortByInputCost(SubSeq(ms, 1, Len(ms) - 1)), ms[Len(ms)])

\* A tier index that is built and never sorted.
IndexByTierUnsorted(ms) ==
    [t \in {ms[i].quality_tier : i \in DOMAIN ms} |->
        SelectSeq(ms, LAMBDA m : m.quality_tier = t)]

\* The tier index of _load_config: a key for every tier that has a model, its
\* models in configuration order, then each list sorted by input price.
IndexByTier(ms) ==
    [t \in {ms[i].quality_tier : i \in DOMAIN ms} |->
        SortByInputCost(SelectSeq(ms, LAMBDA m : m.quality_tier = t))]

\* _load_config, on the parsed configuration file.
LoadConfig(config) ==
    /\ models = config.models
    /\ routing_rules = config.routing_rules
    /\ fallback_chain = config.fallback_chain
    /\ complexity_thresholds = config.complexity_thresholds
    /\ models_by_tier = IndexByTier(config.models)

-----------------------------------------------------------------------------
(* SmartRouter.classify_complexity *)

\* A text, by what the router measures of it.
Text(chars, words, kws, qs, numbered, bullets, code) ==
    [char_count |-> chars, word_count |-> words, keywords |-> kws,
     question_count |-> qs, numbered_items |-> numbered, bullet_items |-> bullets,
     has_code |-> code]

\* sum(1 for kw in keyword_list if kw in text_lower)
Matches(keyword_list, text) ==
    Cardinality({i \in DOMAIN keyword_list : keyword_list[i] \in text.keywords})

DefaultShortTextMax == 100

DefaultMediumTextMax == 500

\* The score of classify_complexity, in halves.
Score2(text) ==
    LET short_max == Get(complexity_thresholds, "short_text_max", DefaultShortTextMax)
        medium_max == Get(complexity_thresholds, "medium_text_max", DefaultMediumTextMax)
        complex_matches == Matches(Get(complexity_thresholds, "complex_keywords", <<>>), text)
        simple_matches == Matches(Get(complexity_thresholds, "simple_keywords", <<>>), text)
        list_items == text.numbered_items + text.bullet_items
    IN    (IF text.char_count <= short_max THEN 0
           ELSE IF text.char_count <= medium_max THEN 2 ELSE 4)
        + complex_matches * 3
        - simple_matches * 2
        + (IF text.question_count > 2 THEN 3
           ELSE IF text.question_count > 0 THEN 1 ELSE 0)
        + (IF list_items >= 3 THEN 4 ELSE IF list_items >= 1 THEN 1 ELSE 0)
        + (IF text.has_code THEN 3 ELSE 0)
        + (IF text.word_count > 200 THEN 3
           ELSE IF text.word_count > 50 THEN 1 ELSE 0)

\* A classifier with no early return for blank text.
classify_complexity_NoBlankCheck(text) ==
    IF Score2(text) <= 2 THEN "simple"
    ELSE IF Score2(text) <= 7 THEN "moderate"
    ELSE "complex"

\* A classifier whose class boundaries are exclusive (< for <=).
classify_complexity_Exclusive(text) ==
    IF text.char_count = 0 THEN "simple"
    ELSE IF Score2(text) < 2 THEN "simple"
    ELSE IF Score2(text) < 7 THEN "moderate"
    ELSE "complex"

\* classify_complexity
classify_complexity(text) ==
    IF text.char_count = 0 THEN "simple"
    ELSE IF Score2(text) <= 2 THEN "simple"
    ELSE IF Score2(text) <= 7 THEN "moderate"
    ELSE "complex"

\* The texts of the requests: blank, a greeting (simple), a question with a
\* complex keyword (moderate), and a multi-part request of sixty words (complex).
Texts ==
    { Text(0, 0, {}, 0, 0, 0, FALSE),
      Text(5, 1, {"hello"}, 0, 0, 0, FALSE),
      Text(15, 3, {"compare"}, 1, 0, 0, FALSE),
      Text(300, 60, {"analyze", "compare"}, 0, 3, 0, FALSE) }

-----------------------------------------------------------------------------
(* SmartRouter._get_cheapest_model *)

\* A budget test that also skips a model whose estimate equals max_cost.
OverBudget_AtCeiling(model, max_cost, in_tokens, out_tokens) ==
    /\ max_cost # None
    /\ estimate_cost(model, in_tokens, out_tokens) >= max_cost[1]

\* Whether the scan of _get_cheapest_model skips the model: max_cost is given
\* and the model's estimate is above it.
OverBudget(model, max_cost, in_tokens, out_tokens) ==
    /\ max_cost # None
    /\ estimate_cost(model, in_tokens, out_tokens) > max_cost[1]

\* A scan that gives up at the first model over budget (break for continue).
FirstWithinBudget_StopAtFirst(ms, max_cost, in_tokens, out_tokens) ==
    IF ms = <<>> THEN None
    ELSE IF OverBudget(Head(ms), max_cost, in_tokens, out_tokens) THEN None
    ELSE Some(Head(ms))

RECURSIVE FirstWithinBudget(_, _, _, _)
\* The for loop of _get_cheapest_model: the first model of the list that is not
\* skipped, None when the list runs out.
FirstWithinBudget(ms, max_cost, in_tokens, out_tokens) ==
    IF ms = <<>> THEN None
    ELSE IF OverBudget(Head(ms), max_cost, in_tokens, out_tokens)
         THEN FirstWithinBudget(Tail(ms), max_cost, in_tokens, out_tokens)
         ELSE Some(Head(ms))

\* A lookup that returns the tier's first model whatever max_cost is.
get_cheapest_model_NoCeiling(tier, max_cost, in_tokens, out_tokens) ==
    FirstWithinBudget(Get(models_by_tier, tier, <<>>), None, in_tokens, out_tokens)

\* _get_cheapest_model
get_cheapest_model(tier, max_cost, in_tokens, out_tokens) ==
    FirstWithinBudget(Get(models_by_tier, tier, <<>>), max_cost, in_tokens, out_tokens)

-----------------------------------------------------------------------------
(* SmartRouter.route *)

\* RoutingRequest(content, complexity, max_cost, required_quality); department
\* and project_id, which the router never reads, are left out.
RoutingRequest(content, complexity, max_cost, required_quality) ==
    [content |-> content, complexity |-> complexity, max_cost |-> max_cost,
     required_quality |-> required_quality]

\* A resolution that runs the classifier whatever the request carries.
ResolveComplexity_AlwaysClassify(request) ==
    classify_complexity(request.content)

\* request.complexity or self.classify_complexity(request.content)
ResolveComplexity(request) ==
    IF request.complexity # NoneStr THEN request.complexity
    ELSE classify_complexity(request.content)

\* A tier choice that ignores required_quality.
TierName_RulesOnly(request, complexity) ==
    Get(routing_rules, complexity, "standard")

\* A tier choice whose default for an unmapped complexity is economy.
TierName_DefaultEconomy(request, complexity) ==
    IF request.required_quality # NoneStr THEN request.required_quality
    ELSE Get(routing_rules, complexity, "economy")

\* Step 2 of route: the name of the target tier, before QualityTier(...) is
\* applied to it.
TierName(request, complexity) ==
    IF request.required_quality # NoneStr THEN request.required_quality
    ELSE Get(routing_rules, complexity, "standard")

MinEstimatedTokens == 100

\* A token estimate with no floor of 100.
EstimatedTokens_NoFloor(content) == content.word_count * 2

\* max(len(request.content.split()) * 2, 100)
EstimatedTokens(content) == Max(content.word_count * 2, MinEstimatedTokens)

\* What a route call leaves: the exception raised ("None" when it returned), the
\* RoutingDecision returned, and the locals of the call when it ended.
Outcome(raised, decision, complexity, target_tier, tokens, tried) ==
    [raised |-> raised, decision |-> decision, complexity |-> complexity,
     target_tier |-> target_tier, estimated_input_tokens |-> tokens,
     estimated_output_tokens |-> tokens, tried |-> tried]

\* A decision whose estimated_cost leaves out the output tokens.
RoutingDecision_InputCostOnly(model, reason, tokens, complexity) ==
    [selected_model |-> model, reason |-> reason,
     estimated_cost |-> estimate_cost(model, tokens, 0),
     quality_tier |-> model.quality_tier, complexity |-> complexity]

\* RoutingDecision(selected_model, reason, estimated_cost, quality_tier, complexity)
RoutingDecision(model, reason, tokens, complexity) ==
    [selected_model |-> model, reason |-> reason,
     estimated_cost |-> estimate_cost(model, tokens, tokens),
     quality_tier |-> model.quality_tier, complexity |-> complexity]

RECURSIVE FallbackSearch(_, _, _, _)
\* The loop over the fallback chain (step 4 of route).  `tried` lists the tiers
\* looked up so far.  QualityTier(name) raises ValueError on a name that is no
\* member of the enum, and the exception leaves route.
FallbackSearch(fallbacks, max_cost, tokens, tried) ==
    IF fallbacks = <<>>
        THEN [raised |-> "None", model |-> None, tier |-> NoneStr, tried |-> tried]
    ELSE IF Head(fallbacks) \notin Tiers
        THEN [raised |-> "InvalidQualityTier", model |-> None, tier |-> NoneStr,
              tried |-> tried]
    ELSE LET model == get_cheapest_model(Head(fallbacks), max_cost, tokens, tokens)
         IN  IF model # None
                 THEN [raised |-> "None", model |-> model, tier |-> Head(fallbacks),
                       tried |-> Append(tried, Head(fallbacks))]
                 ELSE FallbackSearch(Tail(fallbacks), max_cost, tokens,
                                     Append(tried, Head(fallbacks)))

\* route(request)
route(request) ==
    LET complexity == ResolveComplexity(request)
        tier_name == TierName(request, complexity)
        tokens == EstimatedTokens(request.content)
    IN  IF tier_name \notin Tiers
            THEN Outcome("InvalidQualityTier", None, complexity, NoneStr, tokens, <<>>)
        ELSE
        LET model == get_cheapest_model(tier_name, request.max_cost, tokens, tokens)
        IN  IF model # None
                THEN Outcome("None",
                             Some(RoutingDecision(model[1],
                                 << <<"mapped", complexity, tier_name>>,
                                    <<"selected", model[1].name>> >>,
                                 tokens, complexity)),
                             complexity, tier_name, tokens, <<tier_name>>)
            ELSE
            LET fb == FallbackSearch(Get(fallback_chain, tier_name, <<>>),
                                     request.max_cost, tokens, <<tier_name>>)
            IN  IF fb.raised # "None"
                    THEN Outcome(fb.raised, None, complexity, tier_name, tokens, fb.tried)
                ELSE IF fb.model = None
                    THEN Outcome("NoSuitableModel", None, complexity, tier_name, tokens,
                                 fb.tried)
                ELSE Outcome("None",
                             Some(RoutingDecision(fb.model[1],
                                 << <<"no_suitable", tier_name>>,
                                    <<"fell_back", fb.tier, fb.model[1].name>> >>,
                                 tokens, complexity)),
                             complexity, tier_name, tokens, fb.tried)

\* route_text(text, **kwargs): RoutingRequest(content=text, **kwargs), whose
\* absent fields default to None, handed to route.
route_text(text, kwargs) ==
    route(RoutingRequest(text,
                         Get(kwargs, "complexity", NoneStr),
                         Get(kwargs, "max_cost", None),
                         Get(kwargs, "required_quality", NoneStr)))

-----------------------------------------------------------------------------
(* The inputs of the calls *)

\* max_cost of a request (micro-dollars): unset, zero, the estimate of S1 for
\* 100 input and output tokens, and a ceiling between those of P2 and P1.
MaxCosts == {None, Some(0), Some(200), Some(1000)}

Requests ==
    { RoutingRequest(t, c, mc, q) :
        t \in Texts, c \in Complexities \cup {NoneStr}, mc \in MaxCosts,
        q \in Tiers \cup {NoneStr} }

\* The keyword arguments of route_text: a dict holding the arguments given.
KwargsOf(c, mc, q) ==
    [k \in ( (IF c # NoneStr THEN {"complexity"} ELSE {})
             \cup (IF mc # None THEN {"max_cost"} ELSE {})
             \cup (IF q # NoneStr THEN {"required_quality"} ELSE {}) ) |->
        IF k = "complexity" THEN c ELSE IF k = "max_cost" THEN mc ELSE q]

Kwargs ==
    { KwargsOf(c, mc, q) :
        c \in Complexities \cup {NoneStr}, mc \in MaxCosts, q \in Tiers \cup {NoneStr} }

\* Token counts handed to _get_cheapest_model directly.
TokenCounts == {100, 500}

-----------------------------------------------------------------------------
(* The state machine: a loaded router and its caller *)

Idle == [op |-> "idle"]

\* The caller of a lone router: no call held, none remembered, no concurrent
\* caller.
NoCaller ==
    /\ call = Idle
    /\ ret = None
    /\ log = <<>>
    /\ proc = <<>>
    /\ budgets = <<>>
    /\ usage = <<>>

Init ==
    /\ \E config \in Configs : LoadConfig(config)
    /\ NoCaller

\* A route call that consumes the first model of every tier list it looked up
\* (list.pop(0) while scanning).
Route_ConsumesIndex ==
    /\ call = Idle
    /\ \E request \in Requests :
        /\ call' = [op |-> "route", request |-> request]
        /\ ret' = route(request)
        /\ models_by_tier' =
              [t \in DOMAIN models_by_tier |->
                  IF (\E k \in DOMAIN route(request).tried : route(request).tried[k] = t)
                     /\ models_by_tier[t] # <<>>
                  THEN Tail(models_by_tier[t]) ELSE models_by_tier[t]]
    /\ UNCHANGED <<models, routing_rules, fallback_chain, complexity_thresholds,
                   log, proc, store_vars>>

\* A caller invokes route(request).
Route ==
    /\ call = Idle
    /\ \E request \in Requests :
        /\ call' = [op |-> "route", request |-> request]
        /\ ret' = route(request)
    /\ UNCHANGED <<config_vars, log, proc, store_vars>>

\* A caller invokes route_text(text, **kwargs).
RouteText ==
    /\ call = Idle
    /\ \E text \in Texts, kwargs \in Kwargs :
        /\ call' = [op |-> "route_text", text |-> text, kwargs |-> kwargs,
                    request |-> RoutingRequest(text,
                                    Get(kwargs, "complexity", NoneStr),
                                    Get(kwargs, "max_cost", None),
                                    Get(kwargs, "required_quality", NoneStr))]
        /\ ret' = route_text(text, kwargs)
    /\ UNCHANGED <<config_vars, log, proc, store_vars>>

\* A caller invokes _get_cheapest_model(tier, max_cost, in_tokens, out_tokens).
GetCheapestModel ==
    /\ call = Idle
    /\ \E tier \in Tiers, max_cost \in MaxCosts, i \in TokenCounts, o \in TokenCounts :
        /\ call' = [op |-> "_get_cheapest_model", tier |-> tier, max_cost |-> max_cost,
                    estimated_input_tokens |-> i, estimated_output_tokens |-> o]
        /\ ret' = get_cheapest_model(tier, max_cost, i, o)
    /\ UNCHANGED <<config_vars, log, proc, store_vars>>

\* A classify call that takes its thresholds out of the configuration
\* (dict.pop for dict.get).
ClassifyComplexity_PopsThresholds ==
    /\ call = Idle
    /\ \E text \in Texts :
        /\ call' = [op |-> "classify_complexity", text |-> text]
        /\ ret' = classify_complexity(text)
    /\ complexity_thresholds' = <<>>
    /\ UNCHANGED <<models, routing_rules, fallback_chain, models_by_tier, log, proc, store_vars>>

\* A caller invokes classify_complexity(text).
ClassifyComplexity ==
    /\ call = Idle
    /\ \E text \in Texts :
        /\ call' = [op |-> "classify_complexity", text |-> text]
        /\ ret' = classify_complexity(text)
    /\ UNCHANGED <<config_vars, log, proc, store_vars>>

\* The caller has taken the result; the router is ready for the next call.
Return ==
    /\ call # Idle
    /\ call' = Idle
    /\ ret' = None
    /\ UNCHANGED <<config_vars, log, proc, store_vars>>

Next ==
    \/ Route
    \/ RouteText
    \/ GetCheapestModel
    \/ ClassifyComplexity
    \/ Return

Spec == Init /\ [][Next]_vars

-----------------------------------------------------------------------------
(* The classifier on its own: more thresholds, more texts *)

\* complexity_thresholds of a configuration file: low cutoffs with keywords, no
\* key at all (the defaults apply), cutoffs in reverse order, and negative
\* cutoffs, which the loader accepts as it accepts any value.
ClassifierThresholds ==
    ThresholdSets \cup
    { <<>>,
      [short_text_max |-> 20, medium_text_max |-> 10,
       complex_keywords |-> <<"analyze">>],
      [short_text_max |-> -1, medium_text_max |-> -1,
       simple_keywords |-> <<"hello", "thanks">>] }

\* The fewest characters a stripped text with these measurements has: its
\* words and the blanks between them, or its '?', keywords (five letters at
\* least), list markers and code marker together.
MinChars(words, kws, qs, items, code) ==
    Max(2 * words - 1,
        qs + 5 * Cardinality(kws) + 3 * items + (IF code THEN 3 ELSE 0))

\* The empty text and the texts of whitespace alone: nothing is left of them
\* after strip().
BlankText == Text(0, 0, {}, 0, 0, 0, FALSE)

\* Texts on both sides of every cutoff of the classifier.
ClassifierTexts ==
    {BlankText} \cup
    { Text(chars, words, kws, qs, numbered, bullets, code) :
        chars \in {1, 10, 11, 20, 21, 100, 101, 500, 501},
        words \in {1, 50, 51, 200, 201},
        kws \in SUBSET {"analyze", "compare", "hello"},
        qs \in 0..3,
        numbered \in 0..2,
        bullets \in 0..2,
        code \in BOOLEAN }

\* SmartRouter(config_path) on a configuration with an empty catalog.
InitClassifier ==
    /\ \E thresholds \in ClassifierThresholds :
          LoadConfig([models |-> <<>>, routing_rules |-> DefaultRules,
                      fallback_chain |-> <<>>, complexity_thresholds |-> thresholds])
    /\ NoCaller

\* A caller invokes classify_complexity(text) on any text.
ClassifyText ==
    /\ call = Idle
    /\ \E text \in ClassifierTexts :
        /\ text.char_count >= MinChars(text.word_count, text.keywords,
                                       text.question_count,
                                       text.numbered_items + text.bullet_items,
                                       text.has_code)
        /\ call' = [op |-> "classify_complexity", text |-> text]
        /\ ret' = classify_complexity(text)
    /\ UNCHANGED <<config_vars, log, proc, store_vars>>

NextClassifier ==
    \/ ClassifyText
    \/ Return

SpecClassifier == InitClassifier /\ [][NextClassifier]_vars

-----------------------------------------------------------------------------
(* The cost estimate on its own *)

\* Prices per 1,000 tokens (micro-dollars): free, below and at the rounding
\* resolution, and the orders of magnitude of ModelPool.  Pydantic admits any
\* price >= 0.  (Some of these produce exact halves of a micro-dollar, where
\* the float result may be either neighbour; both are between the results for
\* fewer and for more tokens.)
EstimatePrices == {0, 1, 5, 80, 500, 3000}

\* Token counts handed to estimate_cost.
EstimateTokens == {0, 1, 2, 99, 100, 101, 500, 1000, 1500}

\* SmartRouter(config_path) on a catalog of one model of any price.
InitEstimate ==
    /\ \E ci \in EstimatePrices, co \in EstimatePrices :
          LoadConfig([models |-> <<ModelConfig("M", ci, co, "standard")>>,
                      routing_rules |-> DefaultRules, fallback_chain |-> <<>>,
                      complexity_thresholds |-> <<>>])
    /\ NoCaller

\* A caller invokes model.estimate_cost(input_tokens, output_tokens) on a model
\* of the catalog.
EstimateCost ==
    /\ call = Idle
    /\ \E k \in DOMAIN models, i \in EstimateTokens, o \in EstimateTokens :
        /\ call' = [op |-> "estimate_cost", model |-> models[k],
                    input_tokens |-> i, output_tokens |-> o]
        /\ ret' = estimate_cost(models[k], i, o)
    /\ UNCHANGED <<config_vars, log, proc, store_vars>>

NextEstimate ==
    \/ EstimateCost
    \/ Return

SpecEstimate == InitEstimate /\ [][NextEstimate]_vars

-----------------------------------------------------------------------------
(* A caller that repeats calls and compares the results *)

\* The configurations of the repeated calls: two catalogs under the default
\* rules and every fallback chain.
RecallConfigs ==
    [ models : { << ModelConfig("P1", 3000, 9000, "premium"),
                    ModelConfig("P2", 3000, 3000, "premium"),
                    ModelConfig("E1", 80, 300, "economy") >>,
                 << ModelConfig("S1", 500, 1500, "standard"),
                    ModelConfig("E1", 80, 300, "economy") >> },
      routing_rules : {DefaultRules},
      fallback_chain : FallbackChains,
      complexity_thresholds : ThresholdSets ]

\* The requests the caller repeats: one that is served by its target tier, one
\* that no model is cheap enough for, one that falls back where the catalog has
\* no standard model, one that requires premium.
RecallRequests ==
    { RoutingRequest(Text(5, 1, {"hello"}, 0, 0, 0, FALSE), NoneStr, None, NoneStr),
      RoutingRequest(Text(5, 1, {"hello"}, 0, 0, 0, FALSE), NoneStr, Some(0), NoneStr),
      RoutingRequest(Text(15, 3, {"compare"}, 1, 0, 0, FALSE), NoneStr, Some(200), NoneStr),
      RoutingRequest(Text(300, 60, {"analyze", "compare"}, 0, 3, 0, FALSE),
                     NoneStr, Some(1000), "premium") }

\* The route_text calls the caller repeats.
RecallKwargs ==
    { KwargsOf(NoneStr, Some(0), NoneStr), KwargsOf("complex", None, NoneStr) }

InitRecall ==
    /\ \E config \in RecallConfigs : LoadConfig(config)
    /\ NoCaller

\* route(request) on one of the repeated requests.
RecallRoute ==
    /\ Route
    /\ call'.request \in RecallRequests

\* route_text(text, **kwargs) on one of the repeated calls.
RecallRouteText ==
    /\ RouteText
    /\ call'.text = Text(5, 1, {"hello"}, 0, 0, 0, FALSE)
    /\ call'.kwargs \in RecallKwargs

\* The caller takes the result and remembers the call with it.
Remember ==
    /\ call # Idle
    /\ Len(log) < MaxLog
    /\ log' = Append(log, <<call, ret>>)
    /\ call' = Idle
    /\ ret' = None
    /\ UNCHANGED <<config_vars, proc, store_vars>>

NextRecall ==
    \/ RecallRoute
    \/ RecallRouteText
    \/ ClassifyComplexity
    \/ Remember
    \/ Return

SpecRecall == InitRecall /\ [][NextRecall]_vars

-----------------------------------------------------------------------------
(* Callers that share one router: route and classify_complexity step by step *)

Callers == 1 .. NumCallers

\* The frame of a caller outside a call.  `alone` is what the call returns when
\* nothing runs between its steps; `overlapped` tells that another caller took
\* a step while the call was running.
IdleProc ==
    [pc |-> "idle", op |-> NoneStr, request |-> None, complexity |-> NoneStr,
     tier_name |-> NoneStr, tokens |-> 0, model |-> None, fallbacks |-> <<>>,
     fallback_tier |-> NoneStr, tried |-> <<>>, result |-> None, alone |-> None,
     overlapped |-> FALSE]

\* The frames after caller p took a step that leaves it in frame `new`.
Stepped(p, new) ==
    [q \in Callers |->
        IF q = p THEN new
        ELSE IF proc[q].pc \notin {"idle", "done"}
            THEN [proc[q] EXCEPT !.overlapped = TRUE]
        ELSE proc[q]]

InitConcurrent ==
    /\ \E config \in RecallConfigs : LoadConfig(config)
    /\ call = Idle
    /\ ret = None
    /\ log = <<>>
    /\ proc = [p \in Callers |-> IdleProc]
    /\ budgets = <<>>
    /\ usage = <<>>

\* Caller p enters route(request).
BeginRoute(p) ==
    /\ proc[p].pc = "idle"
    /\ \E request \in RecallRequests :
        proc' = Stepped(p, [IdleProc EXCEPT !.pc = "complexity", !.op = "route",
                                            !.request = request,
                                            !.alone = route(request)])
    /\ UNCHANGED <<config_vars, call, ret, log, store_vars>>

\* Caller p enters classify_complexity(text).
BeginClassify(p) ==
    /\ proc[p].pc = "idle"
    /\ \E text \in Texts :
        proc' = Stepped(p, [IdleProc EXCEPT !.pc = "classify",
                                            !.op = "classify_complexity",
                                            !.request = RoutingRequest(text, NoneStr,
                                                                       None, NoneStr),
                                            !.alone = classify_complexity(text)])
    /\ UNCHANGED <<config_vars, call, ret, log, store_vars>>

\* classify_complexity reads the thresholds and returns.
StepClassify(p) ==
    /\ proc[p].pc = "classify"
    /\ proc' = Stepped(p, [proc[p] EXCEPT
                               !.pc = "done",
                               !.result = classify_complexity(proc[p].request.content)])
    /\ UNCHANGED <<config_vars, call, ret, log, store_vars>>

\* Step 1 of route: the complexity.
StepComplexity(p) ==
    /\ proc[p].pc = "complexity"
    /\ proc' = Stepped(p, [proc[p] EXCEPT
                               !.pc = "tier",
                               !.complexity = ResolveComplexity(proc[p].request)])
    /\ UNCHANGED <<config_vars, call, ret, log, store_vars>>

\* Step 2 of route and the token estimate: the target tier is read from the
\* rules; a name that is no QualityTier raises.
StepTier(p) ==
    /\ proc[p].pc = "tier"
    /\ LET f == proc[p]
           tier_name == TierName(f.request, f.complexity)
           tokens == EstimatedTokens(f.request.content)
       IN  proc' = Stepped(p,
               IF tier_name \notin Tiers
                   THEN [f EXCEPT !.pc = "done", !.tokens = tokens,
                                  !.result = Outcome("InvalidQualityTier", None,
                                                     f.complexity, NoneStr, tokens, <<>>)]
               ELSE [f EXCEPT !.pc = "target", !.tier_name = tier_name,
                              !.tokens = tokens])
    /\ UNCHANGED <<config_vars, call, ret, log, store_vars>>

\* Step 3 of route, the caller's side: the target tier is looked up in the
\* index; when no model fits, the fallback list is read from the chain.
TargetLookup(p) ==
    /\ proc[p].pc = "target"
    /\ LET f == proc[p]
           model == get_cheapest_model(f.tier_name, f.request.max_cost,
                                       f.tokens, f.tokens)
       IN  proc' = Stepped(p,
               IF model # None
                   THEN [f EXCEPT !.pc = "decide", !.model = model,
                                  !.tried = <<f.tier_name>>]
               ELSE [f EXCEPT !.pc = "fallback", !.tried = <<f.tier_name>>,
                              !.fallbacks = Get(fallback_chain, f.tier_name, <<>>)])

\* A lookup that takes the first model of the tier out of the index
\* (list.pop(0) while scanning).
StepTarget_ConsumesIndex(p) ==
    /\ TargetLookup(p)
    /\ models_by_tier' =
          [t \in DOMAIN models_by_tier |->
              IF t = proc[p].tier_name /\ models_by_tier[t] # <<>>
                  THEN Tail(models_by_tier[t]) ELSE models_by_tier[t]]
    /\ UNCHANGED <<models, routing_rules, fallback_chain, complexity_thresholds,
                   call, ret, log, store_vars>>

\* Step 3 of route.
StepTarget(p) ==
    /\ TargetLookup(p)
    /\ UNCHANGED <<config_vars, call, ret, log, store_vars>>

\* Step 4 of route: one iteration of the loop over the fallback tiers, or its
\* end with no model.
StepFallback(p) ==
    /\ proc[p].pc = "fallback"
    /\ LET f == proc[p]
       IN  proc' = Stepped(p,
               IF f.fallbacks = <<>>
                   THEN [f EXCEPT !.pc = "done",
                                  !.result = Outcome("NoSuitableModel", None, f.complexity,
                                                     f.tier_name, f.tokens, f.tried)]
               ELSE IF Head(f.fallbacks) \notin Tiers
                   THEN [f EXCEPT !.pc = "done",
                                  !.result = Outcome("InvalidQualityTier", None,
                                                     f.complexity, f.tier_name, f.tokens,
                                                     f.tried)]
               ELSE LET model == get_cheapest_model(Head(f.fallbacks), f.request.max_cost,
                                                    f.tokens, f.tokens)
                    IN  IF model # None
                            THEN [f EXCEPT !.pc = "decide", !.model = model,
                                           !.fallback_tier = Head(f.fallbacks),
                                           !.tried = Append(f.tried, Head(f.fallbacks))]
                        ELSE [f EXCEPT !.fallbacks = Tail(f.fallbacks),
                                       !.tried = Append(f.tried, Head(f.fallbacks))])
    /\ UNCHANGED <<config_vars, call, ret, log, store_vars>>

\* The end of route: the decision is built from the model found.
StepDecide(p) ==
    /\ proc[p].pc = "decide"
    /\ LET f == proc[p]
           model == f.model[1]
           reason == IF f.fallback_tier = NoneStr
                         THEN << <<"mapped", f.complexity, f.tier_name>>,
                                 <<"selected", model.name>> >>
                     ELSE << <<"no_suitable", f.tier_name>>,
                             <<"fell_back", f.fallback_tier, model.name>> >>
       IN  proc' = Stepped(p,
               [f EXCEPT !.pc = "done",
                         !.result = Outcome("None",
                                            Some(RoutingDecision(model, reason, f.tokens,
                                                                 f.complexity)),
                                            f.complexity, f.tier_name, f.tokens, f.tried)])
    /\ UNCHANGED <<config_vars, call, ret, log, store_vars>>

\* The call of caller p has returned or raised; the caller is free again.
Finish(p) ==
    /\ proc[p].pc = "done"
    /\ proc' = Stepped(p, IdleProc)
    /\ UNCHANGED <<config_vars, call, ret, log, store_vars>>

NextConcurrent ==
    \E p \in Callers :
        \/ BeginRoute(p)
        \/ BeginClassify(p)
        \/ StepClassify(p)
        \/ StepComplexity(p)
        \/ StepTier(p)
        \/ StepTarget(p)
        \/ StepFallback(p)
        \/ StepDecide(p)
        \/ Finish(p)

SpecConcurrent == InitConcurrent /\ [][NextConcurrent]_vars

-----------------------------------------------------------------------------
(* _load_config re-run on a router while a route call is in progress *)

\* The caller whose route calls run during the reload.
ReloadCallers == {p \in Callers : \A q \in Callers : p <= q}

RECURSIVE TierOrder(_)
\* The keys of the tier index in insertion order: the tiers of the models in
\* the order of their first model.
TierOrder(ms) ==
    IF ms = <<>> THEN <<>>
    ELSE LET before == TierOrder(SubSeq(ms, 1, Len(ms) - 1))
             tier == ms[Len(ms)].quality_tier
         IN  IF \E k \in DOMAIN before : before[k] = tier THEN before
             ELSE Append(before, tier)

\* The configuration the router holds, as a parsed file.
LoadedConfig ==
    [models |-> models, routing_rules |-> routing_rules,
     fallback_chain |-> fallback_chain,
     complexity_thresholds |-> complexity_thresholds]

\* _load_config is entered: the file is read and parsed (router.py:45-46).
ReloadBegin ==
    /\ call = Idle
    /\ \E config \in RecallConfigs :
        call' = [op |-> "_load_config", pc |-> "models", config |-> config,
                 old |-> LoadedConfig, indexed |-> 0, unsorted |-> <<>>]
    /\ UNCHANGED <<config_vars, ret, log, proc, store_vars>>

\* self.models = [ModelConfig(**m) for m in config["models"]]
ReloadModels ==
    /\ call.op = "_load_config" /\ call.pc = "models"
    /\ models' = call.config.models
    /\ call' = [call EXCEPT !.pc = "routing_rules"]
    /\ UNCHANGED <<routing_rules, fallback_chain, complexity_thresholds,
                   models_by_tier, ret, log, proc, store_vars>>

\* self.routing_rules = config["routing_rules"]
ReloadRules ==
    /\ call.op = "_load_config" /\ call.pc = "routing_rules"
    /\ routing_rules' = call.config.routing_rules
    /\ call' = [call EXCEPT !.pc = "fallback_chain"]
    /\ UNCHANGED <<models, fallback_chain, complexity_thresholds, models_by_tier,
                   ret, log, proc, store_vars>>

\* self.fallback_chain = config["fallback_chain"]
ReloadChain ==
    /\ call.op = "_load_config" /\ call.pc = "fallback_chain"
    /\ fallback_chain' = call.config.fallback_chain
    /\ call' = [call EXCEPT !.pc = "complexity_thresholds"]
    /\ UNCHANGED <<models, routing_rules, complexity_thresholds, models_by_tier,
                   ret, log, proc, store_vars>>

\* self.complexity_thresholds = config.get("complexity_thresholds", {})
ReloadThresholds ==
    /\ call.op = "_load_config" /\ call.pc = "complexity_thresholds"
    /\ complexity_thresholds' = call.config.complexity_thresholds
    /\ call' = [call EXCEPT !.pc = "reset"]
    /\ UNCHANGED <<models, routing_rules, fallback_chain, models_by_tier,
                   ret, log, proc, store_vars>>

\* self._models_by_tier = {}
ReloadResetIndex ==
    /\ call.op = "_load_config" /\ call.pc = "reset"
    /\ models_by_tier' = <<>>
    /\ call' = [call EXCEPT !.pc = "index", !.indexed = 0]
    /\ UNCHANGED <<models, routing_rules, fallback_chain, complexity_thresholds,
                   ret, log, proc, store_vars>>

\* One iteration of `for model in self.models`: the model is appended to the
\* list of its tier, which is created when the tier has no key yet; after the
\* last model the loop over the tiers begins.
ReloadIndexModel ==
    /\ call.op = "_load_config" /\ call.pc = "index"
    /\ IF call.indexed < Len(models)
           THEN LET model == models[call.indexed + 1]
                    tier == model.quality_tier
                IN  /\ models_by_tier' =
                          [t \in DOMAIN models_by_tier \cup {tier} |->
                              IF t # tier THEN models_by_tier[t]
                              ELSE IF tier \in DOMAIN models_by_tier
                                  THEN Append(models_by_tier[tier], model)
                              ELSE <<model>>]
                    /\ call' = [call EXCEPT !.indexed = call.indexed + 1]
       ELSE /\ models_by_tier' = models_by_tier
            /\ call' = [call EXCEPT !.pc = "sort", !.unsorted = TierOrder(models)]
    /\ UNCHANGED <<models, routing_rules, fallback_chain, complexity_thresholds,
                   ret, log, proc, store_vars>>

\* One iteration of `for tier in self._models_by_tier`: the list of the tier
\* is sorted in place; after the last tier _load_config returns.
ReloadSortTier ==
    /\ call.op = "_load_config" /\ call.pc = "sort"
    /\ IF call.unsorted # <<>>
           THEN /\ models_by_tier' =
                      [models_by_tier EXCEPT
                          ![Head(call.unsorted)] =
                              SortByInputCost(models_by_tier[Head(call.unsorted)])]
                /\ call' = [call EXCEPT !.unsorted = Tail(call.unsorted)]
       ELSE /\ models_by_tier' = models_by_tier
            /\ call' = Idle
    /\ UNCHANGED <<models, routing_rules, fallback_chain, complexity_thresholds,
                   ret, log, proc, store_vars>>

NextReload ==
    \/ \E p \in ReloadCallers :
           \/ BeginRoute(p)
           \/ StepComplexity(p)
           \/ StepTier(p)
           \/ StepTarget(p)
           \/ StepFallback(p)
           \/ StepDecide(p)
           \/ Finish(p)
    \/ ReloadBegin
    \/ ReloadModels
    \/ ReloadRules
    \/ ReloadChain
    \/ ReloadThresholds
    \/ ReloadResetIndex
    \/ ReloadIndexModel
    \/ ReloadSortTier

SpecReload == InitConcurrent /\ [][NextReload]_vars

-----------------------------------------------------------------------------
(* CostTracker (src/src/cost_tracker.py): the usage_records table *)

\* A state with no router: the budget manager and the cost tracker read none.
NoRouter ==
    /\ models = <<>>
    /\ routing_rules = <<>>
    /\ fallback_chain = <<>>
    /\ complexity_thresholds = <<>>
    /\ models_by_tier = <<>>

\* What a call of the budget manager, the cost tracker or the analytics leaves:
\* the value returned, or the exception raised.
Result(value) == [raised |-> "None", value |-> value]

Raised(exception) == [raised |-> exception, value |-> None]

\* UsageRecord(model, department, input_tokens, output_tokens, cost, timestamp);
\* project_id and latency_ms, which no modelled query reads, are left out.  The
\* cost is counted in nano-dollars (a float carries more than 6 decimals).  The
\* clock is held: of the timestamp the record keeps whether it is at or after
\* the start of the current week and of the current month.  `int64` tells
\* whether both token counts fit SQLite's 64-bit INTEGER (the pydantic field is
\* an unbounded int; sqlite3 raises OverflowError on a larger one).
UsageRecord(model, department, input_tokens, output_tokens, cost, in_week, in_month, int64) ==
    [model |-> model, department |-> department, input_tokens |-> input_tokens,
     output_tokens |-> output_tokens, cost |-> cost, in_week |-> in_week,
     in_month |-> in_month, int64 |-> int64]

\* The rows the INSERTs of one executemany leave: the records before the first
\* whose binding fails.
RECURSIVE InsertedPrefix(_)
InsertedPrefix(records) ==
    IF records = <<>> \/ ~Head(records).int64 THEN <<>>
    ELSE <<Head(records)>> \o InsertedPrefix(Tail(records))

RECURSIVE SumCost(_)
\* SUM(cost) over rows, in nano-dollars.
SumCost(rows) ==
    IF rows = <<>> THEN 0 ELSE Head(rows).cost + SumCost(Tail(rows))

\* timestamp >= start of the current period
InPeriod(row, period) ==
    IF period = "monthly" THEN row.in_month ELSE row.in_week

\* get_department_spend(department, start_date=period_start), in
\* micro-dollars: round(COALESCE(SUM(cost), 0), 6).
get_department_spend(department, period) ==
    Round6(SumCost(SelectSeq(usage,
                             LAMBDA row : /\ row.department = department
                                          /\ InPeriod(row, period))))

\* The records of the budget checks: spends of "eng" that sum to 79, 80, 90, 100
\* and 101 micro-dollars, inside and outside the week and the month, and a
\* spend of the empty department.
BudgetRecords ==
    { UsageRecord("P1", "eng", 100, 100, cost, age[1], age[2], TRUE) :
          cost \in {79499, 80000, 10000, 20501},
          age \in {<<TRUE, TRUE>>, <<FALSE, TRUE>>, <<TRUE, FALSE>>} }
    \cup { UsageRecord("P1", "", 100, 100, 50000, TRUE, TRUE, TRUE) }

\* The records of the store: one that fits and one whose token count does not.
StoreRecords ==
    { UsageRecord("P1", "eng", 100, 100, 1000, TRUE, TRUE, TRUE),
      UsageRecord("E1", "ops", 100, 100, 1000, TRUE, TRUE, FALSE) }

\* The batches of log_usage_batch.
StoreBatches ==
    { <<>>,
      << UsageRecord("P1", "eng", 100, 100, 1000, TRUE, TRUE, TRUE),
         UsageRecord("P1", "eng", 100, 100, 1000, TRUE, TRUE, TRUE) >>,
      << UsageRecord("P1", "eng", 100, 100, 1000, TRUE, TRUE, TRUE),
         UsageRecord("E1", "ops", 100, 100, 1000, TRUE, TRUE, FALSE),
         UsageRecord("P1", "eng", 100, 100, 1000, TRUE, TRUE, TRUE) >> }

\* The records of the analytics: every model of the pool at its catalog price
\* for input only, output only, both and no tokens.
AnalyticsRecords ==
    { UsageRecord(m.name, "eng", t[1], t[2], 1000 * estimate_cost(m, t[1], t[2]),
                  TRUE, TRUE, TRUE) :
          m \in ModelPool,
          t \in {<<1000, 0>>, <<0, 1000>>, <<1000, 1000>>, <<0, 0>>} }

UsageRecords == BudgetRecords \cup StoreRecords \cup AnalyticsRecords

\* log_usage(record): one INSERT, commit, the new row's id; sqlite3 raises
\* OverflowError, and inserts nothing, on an integer beyond 64 bits.
LogUsage ==
    /\ call = Idle
    /\ \E record \in UsageRecords :
        /\ call' = [op |-> "log_usage", record |-> record]
        /\ IF record.int64
               THEN /\ usage' = Append(usage, record)
                    /\ ret' = Result(Len(usage) + 1)
           ELSE /\ usage' = usage
                /\ ret' = Raised("OverflowError")
    /\ UNCHANGED <<config_vars, log, proc, budgets>>

\* log_usage_batch(records): executemany, commit, len(data).  When the binding
\* of a record fails the exception leaves the call before the commit and with
\* no rollback: the rows inserted so far stay in the connection's open
\* transaction, where its queries see them and its next commit keeps them.
LogUsageBatch ==
    /\ call = Idle
    /\ \E records \in StoreBatches :
        /\ call' = [op |-> "log_usage_batch", records |-> records]
        /\ usage' = usage \o InsertedPrefix(records)
        /\ ret' = IF \A k \in DOMAIN records : records[k].int64
                      THEN Result(Len(records))
                  ELSE Raised("OverflowError")
    /\ UNCHANGED <<config_vars, log, proc, budgets>>

\* get_record_count()
GetRecordCount ==
    /\ call = Idle
    /\ call' = [op |-> "get_record_count"]
    /\ ret' = Result(Len(usage))
    /\ UNCHANGED <<config_vars, log, proc, store_vars>>

-----------------------------------------------------------------------------
(* BudgetManager (src/src/budget_manager.py) on a CostTracker *)

\* class BudgetPeriod(StrEnum)
BudgetPeriods == {"weekly", "monthly"}

\* BudgetConfig(entity_id, budget_limit, period, warning_threshold_pct,
\* critical_threshold_pct): the limit in micro-dollars, the thresholds in
\* percent.
BudgetConfig(entity_id, budget_limit, period, warning, critical) ==
    [entity_id |-> entity_id, budget_limit |-> budget_limit, period |-> period,
     warning_threshold_pct |-> warning, critical_threshold_pct |-> critical]

\* The Field constraints of BudgetConfig: budget_limit ge=0, both thresholds
\* ge=0 and le=100.
BudgetConfigValid(config) ==
    /\ config.budget_limit >= 0
    /\ config.warning_threshold_pct >= 0 /\ config.warning_threshold_pct <= 100
    /\ config.critical_threshold_pct >= 0 /\ config.critical_threshold_pct <= 100

\* The position of entity_id among the keys of self._budgets (a dict keeps its
\* keys in insertion order; `budgets` lists its values in that order), 0 when
\* it is no key.
BudgetPos(registry, entity_id) ==
    LET S == {k \in DOMAIN registry : registry[k].entity_id = entity_id}
    IN  IF S = {} THEN 0 ELSE CHOOSE k \in S : TRUE

\* self._budgets.get(entity_id)
get_budget(entity_id) ==
    IF BudgetPos(budgets, entity_id) = 0 THEN None
    ELSE Some(budgets[BudgetPos(budgets, entity_id)])

\* self._budgets[entity_id] = config
DictSet(registry, config) ==
    IF BudgetPos(registry, config.entity_id) = 0 THEN Append(registry, config)
    ELSE [registry EXCEPT ![BudgetPos(registry, config.entity_id)] = config]

\* self._budgets.setdefault(entity_id, config)
DictSetDefault(registry, config) ==
    IF BudgetPos(registry, config.entity_id) = 0 THEN Append(registry, config)
    ELSE registry

\* del self._budgets[entity_id]
DictDel(registry, entity_id) ==
    LET k == BudgetPos(registry, entity_id)
    IN  SubSeq(registry, 1, k - 1) \o SubSeq(registry, k + 1, Len(registry))

\* The entities of the calls: two departments and the empty string.
Entities == {"", "eng", "ops"}

\* The arguments of the set_budget calls: budgets of 100 micro-dollars and of
\* nothing, thresholds in and out of order, and two that BudgetConfig rejects.
BudgetArgs ==
    { BudgetConfig("eng", 100, "monthly", 80, 90),
      BudgetConfig("eng", 0, "weekly", 80, 90),
      BudgetConfig("ops", 100, "weekly", 90, 80),
      BudgetConfig("", 100, "monthly", 80, 90),
      BudgetConfig("eng", 0 - 1, "monthly", 80, 90),
      BudgetConfig("ops", 100, "monthly", 80, 101) }

\* The arguments of a set_budget call.
SetBudgetCall(config) ==
    [op |-> "set_budget", entity_id |-> config.entity_id,
     budget_limit |-> config.budget_limit, period |-> config.period,
     warning_threshold_pct |-> config.warning_threshold_pct,
     critical_threshold_pct |-> config.critical_threshold_pct]

\* A set_budget that keeps the budget an entity already has
\* (dict.setdefault for the assignment).
SetBudget_KeepsFirst ==
    /\ call = Idle
    /\ \E config \in BudgetArgs :
        /\ call' = SetBudgetCall(config)
        /\ IF BudgetConfigValid(config)
               THEN /\ budgets' = DictSetDefault(budgets, config)
                    /\ ret' = Result(config)
           ELSE /\ budgets' = budgets
                /\ ret' = Raised("ValidationError")
    /\ UNCHANGED <<config_vars, log, proc, usage>>

\* set_budget(entity_id, budget_limit, period, warning_threshold_pct,
\* critical_threshold_pct): BudgetConfig(...) validates, then the registry
\* entry is assigned.
SetBudget ==
    /\ call = Idle
    /\ \E config \in BudgetArgs :
        /\ call' = SetBudgetCall(config)
        /\ IF BudgetConfigValid(config)
               THEN /\ budgets' = DictSet(budgets, config)
                    /\ ret' = Result(config)
           ELSE /\ budgets' = budgets
                /\ ret' = Raised("ValidationError")
    /\ UNCHANGED <<config_vars, log, proc, usage>>

\* remove_budget(entity_id)
RemoveBudget ==
    /\ call = Idle
    /\ \E entity_id \in Entities :
        /\ call' = [op |-> "remove_budget", entity_id |-> entity_id]
        /\ IF BudgetPos(budgets, entity_id) # 0
               THEN /\ budgets' = DictDel(budgets, entity_id)
                    /\ ret' = Result(TRUE)
           ELSE /\ budgets' = budgets
                /\ ret' = Result(FALSE)
    /\ UNCHANGED <<config_vars, log, proc, usage>>

\* get_budget(entity_id)
GetBudget ==
    /\ call = Idle
    /\ \E entity_id \in Entities :
        /\ call' = [op |-> "get_budget", entity_id |-> entity_id]
        /\ ret' = Result(get_budget(entity_id))
    /\ UNCHANGED <<config_vars, log, proc, store_vars>>

\* round(a / b, 0) for a >= 0 and b > 0: to the nearest integer, an exact half
\* to the even neighbour.
RoundHalfEven(a, b) ==
    LET q == a \div b
        r == a % b
    IN  IF 2 * r < b THEN q
        ELSE IF 2 * r > b THEN q + 1
        ELSE IF q % 2 = 0 THEN q ELSE q + 1

\* usage_pct >= threshold, for usage_pct = (current_spend / budget_limit * 100)
\* if budget_limit > 0 else 0.
UsageAtLeast(current_spend, budget_limit, threshold) ==
    IF budget_limit > 0 THEN current_spend * 100 >= threshold * budget_limit
    ELSE 0 >= threshold

\* A status whose comparisons are exclusive.
BudgetStatus_Exclusive(current_spend, config) ==
    LET Above(threshold) ==
            IF config.budget_limit > 0
                THEN current_spend * 100 > threshold * config.budget_limit
            ELSE 0 > threshold
    IN  IF Above(100) THEN "exceeded"
        ELSE IF Above(config.critical_threshold_pct) THEN "critical"
        ELSE IF Above(config.warning_threshold_pct) THEN "warning"
        ELSE "ok"

\* The status of check_budget (budget_manager.py:139-146).
BudgetStatus(current_spend, config) ==
    IF UsageAtLeast(current_spend, config.budget_limit, 100) THEN "exceeded"
    ELSE IF UsageAtLeast(current_spend, config.budget_limit,
                         config.critical_threshold_pct) THEN "critical"
    ELSE IF UsageAtLeast(current_spend, config.budget_limit,
                         config.warning_threshold_pct) THEN "warning"
    ELSE "ok"

\* check_budget(entity_id); usage_pct is returned in hundredths of a percent
\* (round(usage_pct, 2)).
check_budget(entity_id) ==
    IF get_budget(entity_id) = None THEN Raised("ValueError")
    ELSE
    LET config == get_budget(entity_id)[1]
        current_spend == get_department_spend(entity_id, config.period)
    IN  Result([entity_id |-> entity_id,
                budget_limit |-> config.budget_limit,
                current_spend |-> current_spend,
                remaining |-> Max(0, config.budget_limit - current_spend),
                usage_pct |-> IF config.budget_limit > 0
                                  THEN RoundHalfEven(current_spend * 10000,
                                                     config.budget_limit)
                              ELSE 0,
                period |-> config.period,
                status |-> BudgetStatus(current_spend, config)])

\* BudgetAlert(department, budget_limit, current_spend, threshold_pct,
\* alert_type)
BudgetAlert(department, budget_limit, current_spend, threshold_pct, alert_type) ==
    [department |-> department, budget_limit |-> budget_limit,
     current_spend |-> current_spend, threshold_pct |-> threshold_pct,
     alert_type |-> alert_type]

RECURSIVE AlertsOf(_)
\* The loop of generate_alerts over the entities (budget_manager.py:178-209).
AlertsOf(entities) ==
    IF entities = <<>> THEN <<>>
    ELSE IF get_budget(Head(entities)) = None THEN AlertsOf(Tail(entities))
    ELSE
    LET eid == Head(entities)
        config == get_budget(eid)[1]
        current_spend == get_department_spend(eid, config.period)
    IN  IF UsageAtLeast(current_spend, config.budget_limit,
                        config.critical_threshold_pct)
            THEN << BudgetAlert(eid, config.budget_limit, current_spend,
                                config.critical_threshold_pct, "critical") >>
                 \o AlertsOf(Tail(entities))
        ELSE IF UsageAtLeast(current_spend, config.budget_limit,
                             config.warning_threshold_pct)
            THEN << BudgetAlert(eid, config.budget_limit, current_spend,
                                config.warning_threshold_pct, "warning") >>
                 \o AlertsOf(Tail(entities))
        ELSE AlertsOf(Tail(entities))

\* generate_alerts(entity_id): [entity_id] if entity_id else the keys of the
\* registry; None and the empty string are both falsy.
generate_alerts(entity_id) ==
    AlertsOf(IF entity_id # NoneStr /\ entity_id # ""
                 THEN <<entity_id>>
             ELSE [k \in DOMAIN budgets |-> budgets[k].entity_id])

\* A check_budget that gives an entity without a budget an empty one
\* (dict.setdefault for dict.get).
CheckBudget_CreatesDefault ==
    /\ call = Idle
    /\ \E entity_id \in Entities :
        /\ call' = [op |-> "check_budget", entity_id |-> entity_id]
        /\ ret' = check_budget(entity_id)
        /\ budgets' = DictSetDefault(budgets,
                                     BudgetConfig(entity_id, 0, "monthly", 80, 90))
    /\ UNCHANGED <<config_vars, log, proc, usage>>

\* check_budget(entity_id)
CheckBudget ==
    /\ call = Idle
    /\ \E entity_id \in Entities :
        /\ call' = [op |-> "check_budget", entity_id |-> entity_id]
        /\ ret' = check_budget(entity_id)
    /\ UNCHANGED <<config_vars, log, proc, store_vars>>

\* generate_alerts(entity_id), entity_id None included.
GenerateAlerts ==
    /\ call = Idle
    /\ \E entity_id \in Entities \cup {NoneStr} :
        /\ call' = [op |-> "generate_alerts", entity_id |-> entity_id]
        /\ ret' = Result(generate_alerts(entity_id))
    /\ UNCHANGED <<config_vars, log, proc, store_vars>>

-----------------------------------------------------------------------------
(* The budget registry under set_budget, remove_budget and the queries *)

\* A manager with no budget yet, on a tracker that holds one record.
InitRegistry ==
    /\ NoRouter
    /\ call = Idle
    /\ ret = None
    /\ log = <<>>
    /\ proc = <<>>
    /\ budgets = <<>>
    /\ usage = << UsageRecord("P1", "eng", 100, 100, 80000, TRUE, TRUE, TRUE) >>

NextRegistry ==
    \/ SetBudget
    \/ RemoveBudget
    \/ GetBudget
    \/ CheckBudget
    \/ Remember

SpecRegistry == InitRegistry /\ [][NextRegistry]_vars

-----------------------------------------------------------------------------
(* The usage store under log_usage, log_usage_batch and get_record_count *)

InitStore ==
    /\ NoRouter
    /\ NoCaller

\* log_usage on a record of the store.
StoreLogUsage ==
    /\ LogUsage
    /\ call'.record \in StoreRecords

NextStore ==
    \/ StoreLogUsage
    \/ LogUsageBatch
    \/ GetRecordCount
    \/ Remember

SpecStore == InitStore /\ [][NextStore]_vars

-----------------------------------------------------------------------------
(* Budgets checked against the spend of the period *)

\* The budgets of "eng": 100 micro-dollars or nothing, per month or week,
\* thresholds at their defaults, reversed, at 0 and at 100.
BudgetConfigs ==
    { BudgetConfig("eng", 100, "monthly", 80, 90),
      BudgetConfig("eng", 100, "weekly", 90, 80),
      BudgetConfig("eng", 0, "monthly", 80, 90),
      BudgetConfig("eng", 0, "weekly", 0, 0),
      BudgetConfig("eng", 100, "monthly", 100, 100) }

\* The registries set_budget calls have built: none, one budget of "eng", and
\* one of "eng" with one of the empty string before or after it.
BudgetRegistries ==
    {<<>>}
    \cup { <<config>> : config \in BudgetConfigs }
    \cup { <<BudgetConfig("", 100, "monthly", 80, 90), config>> :
               config \in BudgetConfigs }
    \cup { <<config, BudgetConfig("", 100, "monthly", 80, 90)>> :
               config \in BudgetConfigs }

InitBudget ==
    /\ NoRouter
    /\ call = Idle
    /\ ret = None
    /\ log = <<>>
    /\ proc = <<>>
    /\ budgets \in BudgetRegistries
    /\ usage = <<>>

\* log_usage on a record of the budget checks.
BudgetLogUsage ==
    /\ Len(usage) < MaxRecords
    /\ LogUsage
    /\ call'.record \in BudgetRecords

NextBudget ==
    \/ BudgetLogUsage
    \/ CheckBudget
    \/ GenerateAlerts
    \/ Return

SpecBudget == InitBudget /\ [][NextBudget]_vars

-----------------------------------------------------------------------------
(* TokenAnalytics (src/src/analytics.py) on a CostTracker *)

RECURSIVE SumSeq(_)
\* sum(...) of a list of numbers.
SumSeq(numbers) ==
    IF numbers = <<>> THEN 0 ELSE Head(numbers) + SumSeq(Tail(numbers))

RECURSIVE SumValues(_, _)
\* The sum of f[k] over the keys k.
SumValues(f, keys) ==
    IF keys = {} THEN 0
    ELSE LET k == CHOOSE x \in keys : TRUE
         IN  f[k] + SumValues(f, keys \ {k})

\* round(a / b, 0) for b > 0 and a of either sign.
RoundSigned(a, b) ==
    IF a >= 0 THEN RoundHalfEven(a, b) ELSE 0 - RoundHalfEven(0 - a, b)

\* CostSummary(entity, total_cost, request_count, total_input_tokens,
\* total_output_tokens); the averages, which no modelled method reads, are left
\* out.  total_cost is round(SUM(cost), 6), in micro-dollars.
CostSummary(entity, rows) ==
    [entity |-> entity,
     total_cost |-> Round6(SumCost(rows)),
     request_count |-> Len(rows),
     total_input_tokens |-> SumSeq([k \in DOMAIN rows |-> rows[k].input_tokens]),
     total_output_tokens |-> SumSeq([k \in DOMAIN rows |-> rows[k].output_tokens])]

\* get_costs_by_model(): one summary per model of the usage records (GROUP BY
\* model), here keyed by the model; the order of the list (ORDER BY total_cost
\* DESC) is left out.
get_costs_by_model ==
    [model \in {usage[k].model : k \in DOMAIN usage} |->
        CostSummary(model, SelectSeq(usage, LAMBDA row : row.model = model))]

\* total_cost(): round(COALESCE(SUM(cost), 0), 6)
total_cost == Round6(SumCost(usage))

\* Utilization rates whose cost share is taken of the number of requests.
model_utilization_rates_CostOverRequests ==
    LET summaries == get_costs_by_model
        total_requests == SumValues([m \in DOMAIN summaries |->
                                        summaries[m].request_count], DOMAIN summaries)
    IN  [m \in DOMAIN summaries |->
            [model |-> m,
             request_count |-> summaries[m].request_count,
             request_pct |-> IF total_requests > 0
                                 THEN RoundHalfEven(summaries[m].request_count * 10000,
                                                    total_requests)
                             ELSE 0,
             cost |-> summaries[m].total_cost,
             cost_pct |-> IF total_requests > 0
                              THEN RoundHalfEven(summaries[m].total_cost * 10000,
                                                 total_requests)
                          ELSE 0]]

\* model_utilization_rates(): per model the share of the requests and of the
\* cost, each round(..., 2) and counted here in hundredths of a percent.
model_utilization_rates ==
    LET summaries == get_costs_by_model
        total_requests == SumValues([m \in DOMAIN summaries |->
                                        summaries[m].request_count], DOMAIN summaries)
        total == SumValues([m \in DOMAIN summaries |-> summaries[m].total_cost],
                           DOMAIN summaries)
    IN  [m \in DOMAIN summaries |->
            [model |-> m,
             request_count |-> summaries[m].request_count,
             request_pct |-> IF total_requests > 0
                                 THEN RoundHalfEven(summaries[m].request_count * 10000,
                                                    total_requests)
                             ELSE 0,
             cost |-> summaries[m].total_cost,
             cost_pct |-> IF total > 0
                              THEN RoundHalfEven(summaries[m].total_cost * 10000, total)
                          ELSE 0]]

RECURSIVE MaxByOutputPrice(_)
\* max(self.models.values(), key=lambda m: m.cost_per_1k_output): the first
\* model of the catalog whose output price no other exceeds.
MaxByOutputPrice(catalog) ==
    IF Len(catalog) = 1 THEN catalog[1]
    ELSE LET rest == MaxByOutputPrice(Tail(catalog))
         IN  IF rest.cost_per_1k_output > Head(catalog).cost_per_1k_output
                 THEN rest ELSE Head(catalog)

\* self._most_expensive_model
most_expensive_model ==
    IF models = <<>> THEN None ELSE Some(MaxByOutputPrice(models))

\* savings_calculator(baseline_model_id); a model is identified by its name.
\* savings_pct is counted in hundredths of a percent.
savings_calculator(baseline_model_id) ==
    LET named == {k \in DOMAIN models : models[k].name = baseline_model_id}
    IN  IF named = {} /\ most_expensive_model = None
            THEN [actual_cost |-> 0, baseline_cost |-> 0, savings |-> 0,
                  savings_pct |-> 0, baseline_model |-> "none"]
        ELSE
        LET baseline_model ==
                IF baseline_model_id # NoneStr /\ named # {}
                    THEN models[CHOOSE k \in named : \A j \in named : j <= k]
                ELSE most_expensive_model[1]
            summaries == get_costs_by_model
            baseline_cost ==
                SumValues([m \in DOMAIN summaries |->
                              estimate_cost(baseline_model,
                                            summaries[m].total_input_tokens,
                                            summaries[m].total_output_tokens)],
                          DOMAIN summaries)
            savings == baseline_cost - total_cost
        IN  [actual_cost |-> total_cost,
             baseline_cost |-> baseline_cost,
             savings |-> savings,
             savings_pct |-> IF baseline_cost > 0
                                 THEN RoundSigned(savings * 10000, baseline_cost)
                             ELSE 0,
             baseline_model |-> baseline_model.name]

\* The catalogs of the analytics: none, one model, two premium models of which
\* one has the higher output price and the other the higher input price, and
\* one model of each tier.
AnalyticsCatalogs ==
    { <<>>,
      << ModelConfig("E1", 80, 300, "economy") >>,
      << ModelConfig("P1", 3000, 9000, "premium"),
         ModelConfig("P3", 5000, 1000, "premium") >>,
      << ModelConfig("P1", 3000, 9000, "premium"),
         ModelConfig("S1", 500, 1500, "standard"),
         ModelConfig("E1", 80, 300, "economy") >> }

\* TokenAnalytics(cost_tracker, config_path) on an empty tracker: `models` holds
\* the catalog of _load_models.
InitAnalytics ==
    /\ models \in AnalyticsCatalogs
    /\ routing_rules = <<>>
    /\ fallback_chain = <<>>
    /\ complexity_thresholds = <<>>
    /\ models_by_tier = <<>>
    /\ NoCaller

\* log_usage of a record of a model of the catalog, at the catalog's price.
AnalyticsLogUsage ==
    /\ Len(usage) < MaxAnalyticsRecords
    /\ LogUsage
    /\ call'.record \in AnalyticsRecords
    /\ \E k \in DOMAIN models : models[k].name = call'.record.model

\* model_utilization_rates()
ModelUtilizationRates ==
    /\ call = Idle
    /\ call' = [op |-> "model_utilization_rates"]
    /\ ret' = Result(model_utilization_rates)
    /\ UNCHANGED <<config_vars, log, proc, store_vars>>

\* savings_calculator(baseline_model_id), None included.
SavingsCalculator ==
    /\ call = Idle
    /\ \E baseline_model_id \in {NoneStr, "E1"} :
        /\ call' = [op |-> "savings_calculator",
                    baseline_model_id |-> baseline_model_id]
        /\ ret' = Result(savings_calculator(baseline_model_id))
    /\ UNCHANGED <<config_vars, log, proc, store_vars>>

NextAnalytics ==
    \/ AnalyticsLogUsage
    \/ ModelUtilizationRates
    \/ SavingsCalculator
    \/ Return

SpecAnalytics == InitAnalytics /\ [][NextAnalytics]_vars

-----------------------------------------------------------------------------
(* Vocabulary of the properties *)

\* The held call is a route or route_text call.
IsRoute == call.op \in {"route", "route_text"}

\* The held call is a route call that returned a decision.
Returned == IsRoute /\ ret.raised = "None"

\* The decision a returned route call holds.
Decision == ret.decision[1]

\* The estimate of model m for the tokens route derives from the request.
RequestEstimate(m, request) ==
    estimate_cost(m, EstimatedTokens(request.content), EstimatedTokens(request.content))

\* Model m satisfies the request's cost ceiling.
WithinBudget(m, request) ==
    request.max_cost = None \/ RequestEstimate(m, request) <= request.max_cost[1]

\* The catalog lists a model of tier t that satisfies the request's ceiling.
TierQualifies(t, request) ==
    \E i \in DOMAIN models :
        models[i].quality_tier = t /\ WithinBudget(models[i], request)

\* The name the request's target tier goes by: required_quality, else the
\* routing rules' entry for the resolved complexity, else standard.
TargetName(request) ==
    IF request.required_quality # NoneStr THEN request.required_quality
    ELSE IF ResolveComplexity(request) \in DOMAIN routing_rules
         THEN routing_rules[ResolveComplexity(request)]
         ELSE "standard"

\* The fallback chain listed for the request's target tier.
ChainOf(request) ==
    IF TargetName(request) \in DOMAIN fallback_chain
    THEN fallback_chain[TargetName(request)] ELSE <<>>

\* The position of model m in the configuration's model list.
ConfigPos(m) == CHOOSE k \in DOMAIN models : models[k] = m

-----------------------------------------------------------------------------
(* C1 *)

\* C1: whenever route or route_text returns a decision for a request that
\* carries a max_cost, the decision's estimated_cost is at most max_cost, and so
\* is the selected model's estimate for the request, from the target tier or
\* from a fallback tier alike.
C1_CostCeilingRespected ==
    (Returned /\ call.request.max_cost # None) =>
        /\ Decision.estimated_cost <= call.request.max_cost[1]
        /\ RequestEstimate(Decision.selected_model, call.request)
              <= call.request.max_cost[1]

\* A decision taken from a fallback tier under a ceiling that a model of the
\* target tier exceeds.
C1_Witness ==
    /\ Returned
    /\ call.request.max_cost # None
    /\ Decision.quality_tier # ret.target_tier
    /\ \E i \in DOMAIN models :
          /\ models[i].quality_tier = ret.target_tier
          /\ ~WithinBudget(models[i], call.request)

-----------------------------------------------------------------------------
(* C2 *)

\* C2: route fails with the no-suitable-model error exactly when neither the
\* target tier nor any tier listed in its fallback chain holds a model within
\* max_cost (any model when max_cost is unset), and returns a decision in every
\* other case.
C2_ErrorExactlyWhenNothingQualifies ==
    IsRoute =>
        LET nothing ==
                /\ ~TierQualifies(TargetName(call.request), call.request)
                /\ \A k \in DOMAIN ChainOf(call.request) :
                      ~TierQualifies(ChainOf(call.request)[k], call.request)
        IN  /\ (ret.raised = "NoSuitableModel") <=> nothing
            /\ ~nothing => (ret.raised = "None" /\ ret.decision # None)

-----------------------------------------------------------------------------
(* C3 *)

\* C3: _get_cheapest_model(tier, max_cost, in_tokens, out_tokens) returns a
\* model of that tier whose estimate is within max_cost and whose
\* cost_per_1k_input is the lowest among the tier's models within max_cost (all
\* of the tier's models when max_cost is unset), and returns None exactly when
\* the tier has no such model.
C3_CheapestInTier ==
    call.op = "_get_cheapest_model" =>
        LET fits(m) ==
                \/ call.max_cost = None
                \/ estimate_cost(m, call.estimated_input_tokens,
                                 call.estimated_output_tokens) <= call.max_cost[1]
            candidates ==
                {i \in DOMAIN models :
                    models[i].quality_tier = call.tier /\ fits(models[i])}
        IN  /\ (ret = None) <=> (candidates = {})
            /\ ret # None =>
                  /\ \E i \in candidates : models[i] = ret[1]
                  /\ \A j \in candidates :
                        ret[1].cost_per_1k_input <= models[j].cost_per_1k_input

\* A lookup under a ceiling that returns a model listed after one of its tier
\* that is over the ceiling, in a tier whose models the load reordered.
C3_Witness ==
    /\ call.op = "_get_cheapest_model"
    /\ call.max_cost # None
    /\ ret # None
    /\ \E i \in DOMAIN models :
          /\ models[i].quality_tier = call.tier
          /\ models[i].cost_per_1k_input <= ret[1].cost_per_1k_input
          /\ estimate_cost(models[i], call.estimated_input_tokens,
                           call.estimated_output_tokens) > call.max_cost[1]
    /\ models_by_tier[call.tier] # SelectSeq(models, LAMBDA m : m.quality_tier = call.tier)

-----------------------------------------------------------------------------
(* C4 *)

\* C4 as stated: no other model in the selected model's tier has a strictly
\* lower estimated cost for the request's estimated tokens.
C4_CheapestByEstimate ==
    Returned =>
        \A i \in DOMAIN models :
            models[i].quality_tier = Decision.selected_model.quality_tier =>
                RequestEstimate(models[i], call.request) >= Decision.estimated_cost

\* C4, amended: the selected model has the lowest input price among the models
\* that satisfy the tier and cost constraints: no model of its tier whose
\* estimate is within max_cost has a strictly lower cost_per_1k_input.
C4_CheapestByInputPrice ==
    Returned =>
        \A i \in DOMAIN models :
            ( /\ models[i].quality_tier = Decision.selected_model.quality_tier
              /\ WithinBudget(models[i], call.request) ) =>
                models[i].cost_per_1k_input >= Decision.selected_model.cost_per_1k_input

\* A decision for a model that a costlier-by-input model of its tier, listed
\* before it in the configuration, undercuts in estimated cost.
C4_Witness ==
    /\ Returned
    /\ \E i \in DOMAIN models :
          /\ models[i].quality_tier = Decision.selected_model.quality_tier
          /\ models[i].cost_per_1k_input > Decision.selected_model.cost_per_1k_input
          /\ RequestEstimate(models[i], call.request) < Decision.estimated_cost
          /\ i < ConfigPos(Decision.selected_model)

-----------------------------------------------------------------------------
(* C5 *)

\* C5: after loading, each tier's model list holds the tier's models in
\* ascending order of cost_per_1k_input, models of equal price in their
\* configuration order; so the model a lookup or a route call selects is
\* listed in the configuration before every equally priced model of its tier
\* that is within budget.
C5_SortedAndStable ==
    /\ \A t \in DOMAIN models_by_tier :
          LET list == models_by_tier[t]
          IN  /\ Len(list) = Cardinality({i \in DOMAIN models : models[i].quality_tier = t})
              /\ \A i \in DOMAIN list :
                    list[i].quality_tier = t /\ \E k \in DOMAIN models : models[k] = list[i]
              /\ \A i, j \in DOMAIN list :
                    i < j =>
                      /\ list[i].cost_per_1k_input <= list[j].cost_per_1k_input
                      /\ list[i].cost_per_1k_input = list[j].cost_per_1k_input
                            => ConfigPos(list[i]) < ConfigPos(list[j])
    /\ Returned =>
          \A k \in DOMAIN models :
              ( /\ models[k].quality_tier = Decision.selected_model.quality_tier
                /\ models[k].cost_per_1k_input = Decision.selected_model.cost_per_1k_input
                /\ WithinBudget(models[k], call.request) ) =>
                    ConfigPos(Decision.selected_model) <= k

\* A tier whose list the load reordered, holding two equally priced models
\* within budget, of which route selected the one listed first.
C5_Witness ==
    /\ Returned
    /\ LET t == Decision.selected_model.quality_tier
      IN  /\ models_by_tier[t] # SelectSeq(models, LAMBDA m : m.quality_tier = t)
          /\ \E k \in DOMAIN models :
                /\ models[k] # Decision.selected_model
                /\ models[k].quality_tier = t
                /\ models[k].cost_per_1k_input = Decision.selected_model.cost_per_1k_input
                /\ WithinBudget(models[k], call.request)
                /\ ConfigPos(Decision.selected_model) < k

-----------------------------------------------------------------------------
(* C6 *)

\* C6: the target tier of a request is required_quality when the request
\* carries one; otherwise the tier the routing rules map the resolved
\* complexity to (under the default rules: simple to economy, moderate to
\* standard, complex to premium), and standard when the rules have no entry
\* for it.  Route has a target tier unless the name so chosen is no tier.
C6_TargetTier ==
    IsRoute =>
        LET request == call.request
            complexity == ret.complexity
        IN  /\ ret.target_tier = NoneStr =>
                  /\ ret.raised = "InvalidQualityTier"
                  /\ request.required_quality = NoneStr
                  /\ complexity \in DOMAIN routing_rules
                  /\ routing_rules[complexity] \notin Tiers
            /\ ret.target_tier # NoneStr =>
                  /\ request.required_quality # NoneStr =>
                        ret.target_tier = request.required_quality
                  /\ ( request.required_quality = NoneStr
                       /\ complexity \in DOMAIN routing_rules ) =>
                        ret.target_tier = routing_rules[complexity]
                  /\ ( request.required_quality = NoneStr
                       /\ complexity \notin DOMAIN routing_rules ) =>
                        ret.target_tier = "standard"
                  /\ ( request.required_quality = NoneStr
                       /\ routing_rules = DefaultRules ) =>
                        ret.target_tier =
                            CASE complexity = "simple" -> "economy"
                              [] complexity = "moderate" -> "standard"
                              [] complexity = "complex" -> "premium"

\* A request with no required_quality whose complexity the rules do not map,
\* routed to the standard tier.
C6_Witness ==
    /\ IsRoute
    /\ call.request.required_quality = NoneStr
    /\ ret.complexity \notin DOMAIN routing_rules
    /\ ret.target_tier = "standard"
    /\ ret.raised = "None"

-----------------------------------------------------------------------------
(* C7 *)

-----------------------------------------------------------------------------
(* C8 *)

\* C8: when the target tier has no model within budget, route returns the
\* model of the first tier listed in the target tier's fallback chain that has
\* one within budget; a tier listed later is never chosen while one listed
\* earlier has a model within budget.
C8_FirstListedFallback ==
    ( /\ IsRoute
      /\ TargetName(call.request) \in Tiers
      /\ ~TierQualifies(TargetName(call.request), call.request) ) =>
        LET chain == ChainOf(call.request)
        IN  \A k \in DOMAIN chain :
                ( /\ TierQualifies(chain[k], call.request)
                  /\ \A j \in 1..(k - 1) : ~TierQualifies(chain[j], call.request) ) =>
                    /\ ret.raised = "None"
                    /\ Decision.quality_tier = chain[k]
                    /\ WithinBudget(Decision.selected_model, call.request)

-----------------------------------------------------------------------------
(* C9 *)

\* C9: when the target tier holds a model within the request's max_cost (any
\* model when max_cost is unset), route returns a model of the target tier
\* without entering the fallback search: the target tier is the only tier
\* looked up and the decision's quality_tier is the target tier.
C9_TargetTierFirst ==
    ( /\ IsRoute
      /\ TargetName(call.request) \in Tiers
      /\ TierQualifies(TargetName(call.request), call.request) ) =>
        /\ ret.raised = "None"
        /\ Decision.quality_tier = TargetName(call.request)
        /\ Decision.selected_model.quality_tier = TargetName(call.request)
        /\ ret.tried = <<TargetName(call.request)>>
        /\ \A p \in DOMAIN Decision.reason :
              Decision.reason[p][1] \in {"mapped", "selected"}

\* A decision from a target tier whose cheapest-by-input model is over the
\* ceiling, although the fallback chain lists a tier with a model within it.
C9_Witness ==
    /\ Returned
    /\ call.request.max_cost # None
    /\ Decision.quality_tier = ret.target_tier
    /\ \E i \in DOMAIN models :
          /\ models[i].quality_tier = ret.target_tier
          /\ ~WithinBudget(models[i], call.request)
    /\ \E k \in DOMAIN ChainOf(call.request) :
          TierQualifies(ChainOf(call.request)[k], call.request)

-----------------------------------------------------------------------------
(* C10 *)

\* C10: the no-suitable-model error is the only error route raises: every
\* route call on a loaded router returns a decision or fails with that error.
C10_OnlyNoSuitableModelError ==
    IsRoute => ret.raised \in {"None", "NoSuitableModel"}

-----------------------------------------------------------------------------
(* C11 *)

\* Every tier the routing rules and the fallback chain name is a QualityTier.
TierNamesValid ==
    /\ \A c \in DOMAIN routing_rules : routing_rules[c] \in Tiers
    /\ \A t \in DOMAIN fallback_chain :
          \A k \in DOMAIN fallback_chain[t] : fallback_chain[t][k] \in Tiers

\* C11: a configuration whose routing rules or fallback chain name a tier
\* other than premium, standard or economy is rejected at load time, so no
\* request is ever routed by a router holding such a configuration.
C11_UnknownTiersRejected ==
    IsRoute => TierNamesValid

-----------------------------------------------------------------------------
(* C12 *)

\* C12: the complexity route resolves, and reports in its decision, is the
\* request's pre-specified complexity whenever the request carries one, and
\* classify_complexity(content) otherwise.
C12_ReportedComplexity ==
    IsRoute =>
        LET expected ==
                IF call.request.complexity \in Complexities
                THEN call.request.complexity
                ELSE classify_complexity(call.request.content)
        IN  /\ ret.complexity = expected
            /\ ret.raised = "None" => Decision.complexity = expected

\* A decision that reports a pre-specified complexity the classifier would not
\* have given the content.
C12_Witness ==
    /\ Returned
    /\ call.request.complexity \in Complexities
    /\ call.request.complexity # classify_complexity(call.request.content)
    /\ Decision.complexity = call.request.complexity

-----------------------------------------------------------------------------
(* C16 *)

\* The token estimate of C16 for a content: twice its words, at least 100.
C16_Tokens(content) ==
    IF content.word_count * 2 >= 100 THEN content.word_count * 2 ELSE 100

\* C16: route estimates the input tokens as max(2 x words, 100) and the
\* output tokens as the same number; with these counts every tier it looked
\* up before the one it took the model from has no model within max_cost, the
\* selected model is within max_cost, and the decision's estimated_cost is the
\* selected model's estimate.
C16_TokenEstimate ==
    (IsRoute /\ ret.target_tier # NoneStr) =>
        LET tokens == C16_Tokens(call.request.content)
            fits(m) ==
                \/ call.request.max_cost = None
                \/ estimate_cost(m, tokens, tokens) <= call.request.max_cost[1]
            tierFits(t) ==
                \E i \in DOMAIN models : models[i].quality_tier = t /\ fits(models[i])
            last == Len(ret.tried)
        IN  /\ ret.estimated_input_tokens = tokens
            /\ ret.estimated_output_tokens = tokens
            /\ \A k \in 1..(last - 1) : ~tierFits(ret.tried[k])
            /\ ret.raised = "None" =>
                  /\ tierFits(ret.tried[last])
                  /\ fits(Decision.selected_model)
                  /\ Decision.estimated_cost
                        = estimate_cost(Decision.selected_model, tokens, tokens)
            /\ ret.raised = "NoSuitableModel" => ~tierFits(ret.tried[last])

\* A request of more than fifty words that falls back from a tier whose model
\* is within max_cost at 100 tokens and over it at the request's estimate.
C16_Witness ==
    /\ Returned
    /\ call.request.content.word_count > 50
    /\ call.request.max_cost # None
    /\ Decision.quality_tier # ret.target_tier
    /\ \E i \in DOMAIN models :
          /\ models[i].quality_tier = ret.target_tier
          /\ estimate_cost(models[i], 100, 100) <= call.request.max_cost[1]
          /\ estimate_cost(models[i], ret.estimated_input_tokens,
                           ret.estimated_output_tokens) > call.request.max_cost[1]

-----------------------------------------------------------------------------
(* C17 *)

\* C17: in every decision route returns, selected_model is a model of the
\* catalog, estimated_cost is that model's estimate_cost for the request's
\* estimated input and output tokens, and quality_tier is that model's own
\* quality_tier.
C17_DecisionConsistent ==
    Returned =>
        /\ \E i \in DOMAIN models : models[i] = Decision.selected_model
        /\ Decision.estimated_cost
              = Round6(ret.estimated_input_tokens * Decision.selected_model.cost_per_1k_input
                       + ret.estimated_output_tokens
                           * Decision.selected_model.cost_per_1k_output)
        /\ Decision.quality_tier = Decision.selected_model.quality_tier

\* A decision taken from a fallback tier: its quality_tier is the model's tier,
\* not the target tier, and its estimated_cost is positive.
C17_Witness ==
    /\ Returned
    /\ Decision.quality_tier # ret.target_tier
    /\ Decision.estimated_cost > 0
    /\ call.request.content.word_count > 50

-----------------------------------------------------------------------------
(* C13 *)

\* The score of C13, in halves, from the claim's terms.
C13_Score2(text) ==
    LET short_max ==
            IF "short_text_max" \in DOMAIN complexity_thresholds
            THEN complexity_thresholds["short_text_max"] ELSE 100
        medium_max ==
            IF "medium_text_max" \in DOMAIN complexity_thresholds
            THEN complexity_thresholds["medium_text_max"] ELSE 500
        complex_keywords ==
            IF "complex_keywords" \in DOMAIN complexity_thresholds
            THEN complexity_thresholds["complex_keywords"] ELSE <<>>
        simple_keywords ==
            IF "simple_keywords" \in DOMAIN complexity_thresholds
            THEN complexity_thresholds["simple_keywords"] ELSE <<>>
        found(list) == Cardinality({i \in DOMAIN list : list[i] \in text.keywords})
        lines == text.numbered_items + text.bullet_items
        length_term ==
            IF text.char_count <= short_max THEN 0
            ELSE IF text.char_count <= medium_max THEN 2 ELSE 4
        question_term ==
            CASE text.question_count = 0 -> 0
              [] text.question_count \in {1, 2} -> 1
              [] text.question_count > 2 -> 3
        list_term ==
            CASE lines = 0 -> 0
              [] lines \in {1, 2} -> 1
              [] lines >= 3 -> 4
        code_term == IF text.has_code THEN 3 ELSE 0
        word_term ==
            CASE text.word_count <= 50 -> 0
              [] text.word_count \in 51..200 -> 1
              [] text.word_count > 200 -> 3
    IN  length_term + 3 * found(complex_keywords) - 2 * found(simple_keywords)
        + question_term + list_term + code_term + word_term

\* C13: for text that is not blank, classify_complexity returns simple when
\* the score is at most 1.0, moderate when it is above 1.0 and at most 3.5,
\* and complex when it is above 3.5, the score being the sum of the length,
\* keyword, question, list, code and word-count terms of the claim.
C13_ScoreClasses ==
    (call.op = "classify_complexity" /\ call.text.char_count > 0) =>
        LET score2 == C13_Score2(call.text)
        IN  /\ score2 <= 2 => ret = "simple"
            /\ (score2 > 2 /\ score2 <= 7) => ret = "moderate"
            /\ score2 > 7 => ret = "complex"

\* A text whose score is exactly 3.5, from a length, a keyword, a question and
\* a word-count term, classified moderate.
C13_Witness ==
    /\ call.op = "classify_complexity"
    /\ call.text.char_count > 0
    /\ C13_Score2(call.text) = 7
    /\ call.text.word_count > 50
    /\ call.text.question_count > 0
    /\ call.text.keywords # {}
    /\ ret = "moderate"

-----------------------------------------------------------------------------
(* C14 *)

\* C14: classify_complexity returns simple for the empty string and for every
\* text of whitespace alone, whatever thresholds and keyword lists are
\* configured.
C14_BlankIsSimple ==
    (call.op = "classify_complexity" /\ call.text.char_count = 0) =>
        ret = "simple"

\* A blank text classified simple under cutoffs that give every text, blank
\* ones included, the full length term.
C14_Witness ==
    /\ call.op = "classify_complexity"
    /\ call.text.char_count = 0
    /\ ret = "simple"
    /\ "short_text_max" \in DOMAIN complexity_thresholds
    /\ complexity_thresholds["short_text_max"] < 0
    /\ complexity_thresholds["medium_text_max"] < 0

-----------------------------------------------------------------------------
(* C18 *)

\* C18: estimate_cost is monotonically non-decreasing in each token argument:
\* with more input tokens, or with more output tokens, the other held fixed,
\* the cost is never lower; and the cost of non-negative token counts is never
\* negative.
C18_EstimateMonotone ==
    call.op = "estimate_cost" =>
        /\ ret >= 0
        /\ \A t \in EstimateTokens :
              /\ t >= call.input_tokens =>
                    estimate_cost(call.model, t, call.output_tokens) >= ret
              /\ t >= call.output_tokens =>
                    estimate_cost(call.model, call.input_tokens, t) >= ret

\* A positive estimate that more input tokens leave as it is (the rounding
\* absorbs them) and still more input tokens raise, as more output tokens do.
C18_Witness ==
    /\ call.op = "estimate_cost"
    /\ ret > 0
    /\ \E t \in EstimateTokens :
          t > call.input_tokens /\ estimate_cost(call.model, t, call.output_tokens) = ret
    /\ \E t \in EstimateTokens :
          t > call.input_tokens /\ estimate_cost(call.model, t, call.output_tokens) > ret
    /\ \E t \in EstimateTokens :
          t > call.output_tokens /\ estimate_cost(call.model, call.input_tokens, t) > ret

-----------------------------------------------------------------------------
(* C15 *)

\* C15: classify_complexity is deterministic and stateless: on a loaded
\* router a call returns the complexity every earlier call with the same text
\* returned, whatever classify or route calls were made in between.
C15_ClassifyRepeatable ==
    call.op = "classify_complexity" =>
        \A k \in DOMAIN log : log[k][1] = call => log[k][2] = ret

\* A text classified moderate, then a route call, then the same text
\* classified moderate again.
C15_Witness ==
    /\ call.op = "classify_complexity"
    /\ ret = "moderate"
    /\ Len(log) >= 2
    /\ log[1] = <<call, ret>>
    /\ log[2][1].op = "route"

-----------------------------------------------------------------------------
(* C19 *)

\* A held route or route_text call has the result every remembered call with
\* the same arguments had.
C19_SameResultAsBefore ==
    IsRoute => \A k \in DOMAIN log : log[k][1] = call => log[k][2] = ret

\* C19: route and route_text have no side effects: no call, successful or
\* failing, changes the model list, the routing rules, the fallback chain, the
\* classifier thresholds or the tier index, and a repeated request gets the
\* decision, or the error, it got before.
C19_NoSideEffects ==
    /\ [][config_vars' = config_vars]_vars
    /\ []C19_SameResultAsBefore

\* A request that fell back to another tier, then a request that failed, then
\* the first request again with the decision it got before.
C19_Witness ==
    /\ call.op = "route"
    /\ ret.raised = "None"
    /\ Decision.quality_tier # ret.target_tier
    /\ Len(log) >= 2
    /\ log[1] = <<call, ret>>
    /\ log[2][1].op \in {"route", "route_text"}
    /\ log[2][2].raised # "None"

-----------------------------------------------------------------------------
(* C20 *)

\* C20: concurrent route and classify_complexity calls on one loaded router
\* need no coordination: however the steps of the callers interleave, a call
\* that has ended returned, or raised, exactly what it returns when it runs
\* alone.
C20_AsIfAlone ==
    \A p \in DOMAIN proc :
        proc[p].pc = "done" => proc[p].result = proc[p].alone

\* Two route calls that ran interleaved: one ended with a decision reached by
\* fallback, the other with NoSuitableModelError.
C20_Witness ==
    \E p, q \in DOMAIN proc :
        /\ p # q
        /\ proc[p].pc = "done" /\ proc[p].op = "route" /\ proc[p].overlapped
        /\ proc[p].result.raised = "None"
        /\ proc[p].fallback_tier # NoneStr
        /\ proc[q].pc = "done" /\ proc[q].op = "route" /\ proc[q].overlapped
        /\ proc[q].result.raised = "NoSuitableModel"

-----------------------------------------------------------------------------
(* C21 *)

\* The held call is a model_utilization_rates call.
Utilization == call.op = "model_utilization_rates"

\* The sum of the request_pct of the rates returned, in hundredths of a percent.
RequestPctSum ==
    SumValues([m \in DOMAIN ret.value |-> ret.value[m].request_pct], DOMAIN ret.value)

\* The sum of the cost_pct of the rates returned, in hundredths of a percent.
CostPctSum ==
    SumValues([m \in DOMAIN ret.value |-> ret.value[m].cost_pct], DOMAIN ret.value)

Distance(a, b) == IF a >= b THEN a - b ELSE b - a

\* C21 as stated: for every set of usage records the request_pct of one call
\* sum to 100.0 within 0.1, and so do the cost_pct.
C21_SumToHundred ==
    Utilization =>
        /\ Distance(RequestPctSum, 10000) < 10
        /\ Distance(CostPctSum, 10000) < 10

\* C21, amended: with at least one usage record the request_pct sum to 100.0
\* within 0.005 per model returned, and so do the cost_pct when the total cost
\* is positive; with no record the call returns no rate, and when no record
\* has a cost every cost_pct is 0.
C21_SumNearHundred ==
    Utilization =>
        /\ IF usage = <<>> THEN DOMAIN ret.value = {}
           ELSE 2 * Distance(RequestPctSum, 10000) <= Cardinality(DOMAIN ret.value)
        /\ IF \E m \in DOMAIN ret.value : ret.value[m].cost > 0
               THEN 2 * Distance(CostPctSum, 10000) <= Cardinality(DOMAIN ret.value)
           ELSE \A m \in DOMAIN ret.value : ret.value[m].cost_pct = 0

\* Three models with one request each: 33.33 three times, 99.99 in all.
C21_Witness ==
    /\ Utilization
    /\ Cardinality(DOMAIN ret.value) = 3
    /\ RequestPctSum = 9999
    /\ CostPctSum > 0

-----------------------------------------------------------------------------
(* C27 *)

\* The cost of every usage record is the catalog price of its model for its
\* tokens.
PricedByCatalog ==
    \A k \in DOMAIN usage :
        \E j \in DOMAIN models :
            /\ models[j].name = usage[k].model
            /\ usage[k].cost = 1000 * estimate_cost(models[j], usage[k].input_tokens,
                                                    usage[k].output_tokens)

\* C27: with the default baseline savings_calculator never reports a loss:
\* when every record costs the catalog price of its model, savings and
\* savings_pct are both >= 0.
C27_NoLoss ==
    (/\ call.op = "savings_calculator"
     /\ call.baseline_model_id = NoneStr
     /\ PricedByCatalog)
    => (ret.value.savings >= 0 /\ ret.value.savings_pct >= 0)

-----------------------------------------------------------------------------
(* C22 *)

\* The held call is a check_budget call that returned its dictionary.
Checked == call.op = "check_budget" /\ ret.raised = "None"

\* C22: check_budget classifies by usage_pct = current_spend / budget_limit x
\* 100, taken as 0 when the limit is 0: 'exceeded' when usage_pct >= 100,
\* otherwise 'critical' when it is >= critical_threshold_pct, otherwise
\* 'warning' when it is >= warning_threshold_pct, otherwise 'ok'.
C22_StatusByUsage ==
    Checked =>
        LET v == ret.value
            config == get_budget(call.entity_id)[1]
            Reaches(threshold) ==
                IF v.budget_limit = 0 THEN threshold <= 0
                ELSE threshold * v.budget_limit <= 100 * v.current_spend
        IN  /\ v.current_spend = get_department_spend(call.entity_id, config.period)
            /\ v.budget_limit = config.budget_limit
            /\ v.status = "exceeded" <=> Reaches(100)
            /\ v.status = "critical" <=>
                   ~Reaches(100) /\ Reaches(config.critical_threshold_pct)
            /\ v.status = "warning" <=>
                   /\ ~Reaches(100) /\ ~Reaches(config.critical_threshold_pct)
                   /\ Reaches(config.warning_threshold_pct)
            /\ v.status = "ok" <=>
                   /\ ~Reaches(100) /\ ~Reaches(config.critical_threshold_pct)
                   /\ ~Reaches(config.warning_threshold_pct)

\* A spend of exactly 90% of a budget whose critical threshold is 90, reported
\* critical.
C22_Witness ==
    /\ Checked
    /\ ret.value.status = "critical"
    /\ ret.value.budget_limit > 0
    /\ ret.value.current_spend * 100 =
           get_budget(call.entity_id)[1].critical_threshold_pct * ret.value.budget_limit
    /\ get_budget(call.entity_id)[1].critical_threshold_pct = 90

-----------------------------------------------------------------------------
(* C23 *)

\* The alert the claim prescribes for an entity: "critical", "warning" or
\* "none".
PrescribedAlert(entity_id) ==
    IF get_budget(entity_id) = None THEN "none"
    ELSE LET config == get_budget(entity_id)[1]
             current_spend == get_department_spend(entity_id, config.period)
         IN  IF UsageAtLeast(current_spend, config.budget_limit,
                             config.critical_threshold_pct) THEN "critical"
             ELSE IF UsageAtLeast(current_spend, config.budget_limit,
                                  config.warning_threshold_pct) THEN "warning"
             ELSE "none"

\* C23: generate_alerts yields at most one alert per entity, CRITICAL at or
\* above the critical threshold, otherwise WARNING at or above the warning
\* threshold, otherwise none; an entity without a budget yields no alert; a
\* call with no entity argument covers every configured budget, a call with
\* an entity only that entity.
C23_AlertsPerEntity ==
    call.op = "generate_alerts" =>
        \A entity_id \in Entities :
            LET mine == {k \in DOMAIN ret.value :
                            ret.value[k].department = entity_id}
                covered == call.entity_id \in {NoneStr, entity_id}
            IN  IF covered /\ PrescribedAlert(entity_id) # "none"
                    THEN /\ Cardinality(mine) = 1
                         /\ \A k \in mine :
                                ret.value[k].alert_type = PrescribedAlert(entity_id)
                ELSE mine = {}

-----------------------------------------------------------------------------
(* C24 *)

\* The calls made so far with their results: the remembered ones and the held
\* one.
History == IF call = Idle THEN log ELSE Append(log, <<call, ret>>)

RECURSIVE LatestBudget(_, _)
\* The configuration of the latest set_budget(entity_id) of a history that
\* returned one, None when a remove_budget(entity_id) followed it or there is
\* none.
LatestBudget(history, entity_id) ==
    IF history = <<>> THEN None
    ELSE LET c == history[Len(history)][1]
             r == history[Len(history)][2]
         IN  IF c.op = "set_budget" /\ c.entity_id = entity_id /\ r.raised = "None"
                 THEN Some(BudgetConfig(c.entity_id, c.budget_limit, c.period,
                                        c.warning_threshold_pct,
                                        c.critical_threshold_pct))
             ELSE IF c.op = "remove_budget" /\ c.entity_id = entity_id
                 THEN None
             ELSE LatestBudget(SubSeq(history, 1, Len(history) - 1), entity_id)

\* C24: the budget registry behaves as a map: after any sequence of set_budget
\* and remove_budget calls get_budget(e) returns the configuration of the
\* latest set_budget(e) when no remove_budget(e) followed it and None
\* otherwise; remove_budget(e) returns True exactly when e had a budget; no
\* call changes the budget of another entity.
C24_RegistryIsMap ==
    /\ \A entity_id \in Entities :
           get_budget(entity_id) = LatestBudget(History, entity_id)
    /\ call.op = "get_budget" =>
           ret.value = LatestBudget(log, call.entity_id)
    /\ call.op = "remove_budget" =>
           ret.value = (LatestBudget(log, call.entity_id) # None)

\* Budgets set for "ops" and for "eng", then remove_budget("ops") returning
\* True with the budget of "eng" in place.
C24_Witness ==
    /\ Len(log) = 2
    /\ log[1][1].op = "set_budget" /\ log[1][1].entity_id = "ops"
    /\ log[1][2].raised = "None"
    /\ log[2][1].op = "set_budget" /\ log[2][1].entity_id = "eng"
    /\ log[2][2].raised = "None"
    /\ call.op = "remove_budget" /\ call.entity_id = "ops"
    /\ ret.value = TRUE
    /\ get_budget("eng") = Some(log[2][2].value)
    /\ get_budget("ops") = None

-----------------------------------------------------------------------------
(* C25 *)

\* C25: check_budget on an entity with no configured budget raises the 'No
\* budget configured' ValueError and leaves the configured budgets and the
\* usage records as they were.
C25_UnbudgetedRaises ==
    [][ (call = Idle /\ call'.op = "check_budget"
         /\ get_budget(call'.entity_id) = None)
        => (ret'.raised = "ValueError" /\ store_vars' = store_vars) ]_vars

\* check_budget("ops") raised while "eng" has a budget and the tracker a
\* record.
C25_Witness ==
    /\ call.op = "check_budget"
    /\ ret.raised = "ValueError"
    /\ get_budget(call.entity_id) = None
    /\ budgets # <<>>
    /\ usage # <<>>

-----------------------------------------------------------------------------
(* C26 *)

RECURSIVE RecordsPassed(_)
\* The number of records a history of calls passed to log_usage and
\* log_usage_batch.
RecordsPassed(history) ==
    IF history = <<>> THEN 0
    ELSE LET c == Head(history)[1]
         IN  (IF c.op = "log_usage" THEN 1
              ELSE IF c.op = "log_usage_batch" THEN Len(c.records)
              ELSE 0)
             + RecordsPassed(Tail(history))

\* C26: the usage store is append-only: get_record_count equals the number of
\* records passed to log_usage and log_usage_batch so far, log_usage_batch
\* returns the number of records of its batch and log_usage a positive id.
C26_CountIsRecordsPassed ==
    /\ call.op = "get_record_count" => ret.value = RecordsPassed(log)
    /\ call.op = "log_usage_batch" /\ ret.raised = "None" =>
           ret.value = Len(call.records)
    /\ call.op = "log_usage" /\ ret.raised = "None" => ret.value > 0

-----------------------------------------------------------------------------
(* C28 *)

\* Caller p looks the tier index up in its next step.
ReadsIndex(p) ==
    \/ proc[p].pc = "target"
    \/ /\ proc[p].pc = "fallback"
       /\ proc[p].fallbacks # <<>>
       /\ Head(proc[p].fallbacks) \in Tiers

\* The tier index is the complete index of the catalog the router held before
\* the reload or of the catalog being loaded.
IndexComplete ==
    IF call.op = "_load_config"
        THEN \/ models_by_tier = IndexByTier(call.old.models)
             \/ models_by_tier = IndexByTier(call.config.models)
    ELSE models_by_tier = IndexByTier(models)

\* C28: when _load_config is re-run while route calls are in progress, no
\* route call observes a partially updated tier index: every lookup of a call
\* reads the complete index of the old catalog or of the new one.
C28_NoPartialIndex ==
    [][ \A p \in DOMAIN proc :
            (ReadsIndex(p) /\ proc'[p] # proc[p]) => IndexComplete ]_vars

-----------------------------------------------------------------------------
(* C29 *)

\* C29: check_budget and generate_alerts agree: for a budgeted entity
\* generate_alerts(entity) returns an alert exactly when check_budget(entity)
\* reports a status other than 'ok', a CRITICAL one exactly when the status is
\* 'critical' or 'exceeded', a WARNING one exactly when it is 'warning'.
C29_AlertsAgreeWithStatus ==
    (/\ call.op = "generate_alerts"
     /\ call.entity_id # NoneStr
     /\ get_budget(call.entity_id) # None)
    => LET status == check_budget(call.entity_id).value.status
           types == {ret.value[k].alert_type : k \in DOMAIN ret.value}
       IN  /\ ret.value # <<>> <=> status # "ok"
           /\ "critical" \in types <=> status \in {"critical", "exceeded"}
           /\ "warning" \in types <=> status = "warning"

-----------------------------------------------------------------------------
(* C30 *)

\* C30: overspending is never reported as healthy: whenever the spend of the
\* period is strictly greater than budget_limit, check_budget reports
\* 'exceeded' and remaining = 0.
C30_OverspendIsExceeded ==
    (Checked /\ ret.value.current_spend > ret.value.budget_limit)
    => (ret.value.status = "exceeded" /\ ret.value.remaining = 0)

====
